---- MODULE Spec2Model ----
(***************************************************************************)
(* Authentication and session core of the password-manager backend:        *)
(* the login rate limiter, login, refresh-token rotation, the signed       *)
(* token families and MFA challenge verification.                          *)
(*                                                                         *)
(* Time is counted in ticks of 1/TicksPerSecond second, so that the        *)
(* truncation of a datetime to a whole-second JWT timestamp is visible.    *)
(* Every request handler is cut at its awaits on the database or on the    *)
(* rate limiter's lock; a read sees the rows committed at that moment and  *)
(* a commit writes the columns the handler assigned (UPDATE by primary     *)
(* key) onto the rows as they then are.                                    *)
(***************************************************************************)
EXTENDS Integers, Sequences, FiniteSets, TLC

\* ---------------------------------------------------------------- bounds
TicksPerSecond == 2
NumProcs == 2
MaxSessions == 3
MaxTicks == 2
MaxLogins == 1
MaxOtherIpFailures == 1
MaxCodesTried == 2
MaxAudit == 3
MaxRevokeSessions == 2
MaxInvites == 1

\* ------------------------------------------------------ program constants
MAX_FAILED_ATTEMPTS == 5
FAILED_ATTEMPTS_WINDOW_SECONDS == 900
jwt_access_ttl_minutes == 15
jwt_refresh_ttl_days == 7
mfa_challenge_ttl_minutes == 5
BACKUP_CODE_COUNT == 8

jwt_issuer == "vaultguard"
ALGORITHM == "RS256"

Seconds(n) == n * TicksPerSecond
Minutes(n) == Seconds(60 * n)
Days(n) == Seconds(86400 * n)

invitation_token_ttl_days == 7
\* MIN_FAILED_LOGIN_RESPONSE_SECONDS = 0.2, in milliseconds
MIN_FAILED_LOGIN_RESPONSE_MILLIS == 200

NoTime == -1
NoId == 0
None == "none"

\* ------------------------------------------------------------ value sets
Procs == 1..NumProcs
UserIds == {"u1", "u2", "u3", "u4", "u5"}
IPs == {"ip1", "ip2"}
UserStatus == {"active", "suspended", "invited"}
UserRole == {"owner", "admin", "manager", "member", "viewer"}

\* An e-mail as typed: a name and whether it carries upper case or padding.
EmailNames == {"alice", "bob", "carol", "dave", "erin", "nobody"}
Emails == [name : EmailNames, plain : BOOLEAN]
Verifiers == {"va", "vb", "vc", "bad"}

\* payload.email.strip().lower()
NormalizeEmail(e) == [e EXCEPT !.plain = TRUE]

\* ------------------------------------------------------- hashing, hasher
\* secrets.token_urlsafe(48): the n-th value drawn.
TokenUrlsafe(n) == [token |-> n]

\* hashlib.sha256(token.encode()).hexdigest(): collision-free on the tokens used.
Sha256(token) == [sha256 |-> token.token]

\* argon2_hasher.hash: a salted, self-describing hash of the verifier.
Argon2Hash(secret) == [argon2id |-> secret]

\* hasher.verify; a mismatch raises VerificationError, which login turns to False.
HasherVerify(hash, secret) == hash = Argon2Hash(secret)

\* A NULL in a column of digests: equal to the digest of no token.
NullHash == [sha256 |-> <<>>]

DUMMY_AUTH_VERIFIER_HASH == Argon2Hash("vaultguard-dummy-auth-verifier")

\* --------------------------------------------------------------- tokens
UuidToStr(u) == <<"uuid", u>>
UuidFromStr(s) == s[2]

\* int(datetime.timestamp()) and datetime.fromtimestamp(seconds)
IntTimestamp(ticks) == ticks \div TicksPerSecond
FromTimestamp(secs) == secs * TicksPerSecond

ServerKey == "server-key"

\* jwt.encode(payload, private key): the claims and the key that signed them.
JwtEncode(payload, key) == [claims |-> payload, signed_by |-> key, alg |-> ALGORITHM]

issue_access_token(user_id, org_id, email, role, now) ==
    LET issued_at == now
        expiry == issued_at + Minutes(jwt_access_ttl_minutes)
        payload == [sub |-> UuidToStr(user_id),
                    org_id |-> UuidToStr(org_id),
                    email |-> email,
                    role |-> role,
                    iss |-> jwt_issuer,
                    iat |-> IntTimestamp(issued_at),
                    exp |-> IntTimestamp(expiry)]
    IN  JwtEncode(payload, ServerKey)

issue_mfa_token(user_id, org_id, email, role, now) ==
    LET issued_at == now
        expiry == issued_at + Minutes(mfa_challenge_ttl_minutes)
        payload == [sub |-> UuidToStr(user_id),
                    org_id |-> UuidToStr(org_id),
                    email |-> email,
                    role |-> role,
                    purpose |-> "mfa",
                    iss |-> jwt_issuer,
                    iat |-> IntTimestamp(issued_at),
                    exp |-> IntTimestamp(expiry)]
    IN  JwtEncode(payload, ServerKey)

\* The decoding with a token still accepted at the instant of its exp claim.
JwtDecodeOk_at_expiry(token, required, now) ==
    /\ token.signed_by = ServerKey
    /\ token.alg = ALGORITHM
    /\ required \subseteq DOMAIN token.claims
    /\ FromTimestamp(token.claims.exp) >= now
    /\ token.claims.iss = jwt_issuer

\* jwt.decode(token, public key, algorithms, issuer, options.require): the
\* signature, the presence of every required claim, exp and iss are checked.
JwtDecodeOk(token, required, now) ==
    /\ token.signed_by = ServerKey
    /\ token.alg = ALGORITHM
    /\ required \subseteq DOMAIN token.claims
    /\ FromTimestamp(token.claims.exp) > now
    /\ token.claims.iss = jwt_issuer

AccessRequired == {"sub", "org_id", "email", "role", "iat", "exp", "iss"}
MfaRequired == AccessRequired \cup {"purpose"}

\* The expiry issue_access_token returns next to the token.
issue_access_token_expiry(now) == now + Minutes(jwt_access_ttl_minutes)

\* The payload built with iat read from the exp claim.
AccessTokenPayload_iat_from_exp(claims) ==
    [sub |-> UuidFromStr(claims.sub),
     org_id |-> UuidFromStr(claims.org_id),
     email |-> claims.email,
     role |-> claims.role,
     iat |-> FromTimestamp(claims.exp),
     exp |-> FromTimestamp(claims.exp),
     iss |-> claims.iss]

AccessTokenPayload(claims) ==
    [sub |-> UuidFromStr(claims.sub),
     org_id |-> UuidFromStr(claims.org_id),
     email |-> claims.email,
     role |-> claims.role,
     iat |-> FromTimestamp(claims.iat),
     exp |-> FromTimestamp(claims.exp),
     iss |-> claims.iss]

\* validate_access_token: ok is FALSE when it raises AccessTokenValidationError.
validate_access_token(token, now) ==
    IF JwtDecodeOk(token, AccessRequired, now)
    THEN [ok |-> TRUE, payload |-> AccessTokenPayload(token.claims)]
    ELSE [ok |-> FALSE]

MfaTokenPayload(claims) ==
    [sub |-> UuidFromStr(claims.sub),
     org_id |-> UuidFromStr(claims.org_id),
     email |-> claims.email,
     role |-> claims.role,
     purpose |-> claims.purpose,
     iat |-> FromTimestamp(claims.iat),
     exp |-> FromTimestamp(claims.exp),
     iss |-> claims.iss]

\* The validation without the comparison of the purpose claim.
validate_mfa_token_any_purpose(token, now) ==
    IF JwtDecodeOk(token, MfaRequired, now)
    THEN [ok |-> TRUE, payload |-> MfaTokenPayload(token.claims)]
    ELSE [ok |-> FALSE]

\* validate_mfa_token: ok is FALSE when it raises MfaTokenValidationError.
validate_mfa_token(token, now) ==
    IF JwtDecodeOk(token, MfaRequired, now)
    THEN IF MfaTokenPayload(token.claims).purpose # "mfa"
         THEN [ok |-> FALSE]
         ELSE [ok |-> TRUE, payload |-> MfaTokenPayload(token.claims)]
    ELSE [ok |-> FALSE]

\* --------------------------------------------------------- rate limiter
RECURSIVE DropExpired(_, _)
\* while failures and failures[0] < threshold: failures.popleft()
DropExpired(failures, threshold) ==
    IF failures # <<>> /\ Head(failures) < threshold
    THEN DropExpired(Tail(failures), threshold)
    ELSE failures

\* The pruning loop with <= in place of <: the failure that is exactly as old as
\* the window goes too.
RECURSIVE DropExpiredThrough(_, _)
DropExpiredThrough(failures, threshold) ==
    IF failures # <<>> /\ Head(failures) <= threshold
    THEN DropExpiredThrough(Tail(failures), threshold)
    ELSE failures

\* _prune_and_get with a window that is open at its old end.
prune_and_get_open_window(attempts, ip, now) ==
    DropExpiredThrough(attempts[ip], now - Seconds(FAILED_ATTEMPTS_WINDOW_SECONDS))

\* LoginRateLimiter._prune_and_get: the deque of ip after pruning.
prune_and_get(attempts, ip, now) ==
    DropExpired(attempts[ip], now - Seconds(FAILED_ATTEMPTS_WINDOW_SECONDS))

\* is_rate_limited that lets every address pass.
is_rate_limited_never(attempts, ip, now) ==
    [limited |-> FALSE, attempts |-> [attempts EXCEPT ![ip] = prune_and_get(attempts, ip, now)]]

\* is_rate_limited with the threshold off by one (>= instead of >).
is_rate_limited_inclusive(attempts, ip, now) ==
    LET failures == prune_and_get(attempts, ip, now)
    IN  [limited |-> Len(failures) >= MAX_FAILED_ATTEMPTS,
         attempts |-> [attempts EXCEPT ![ip] = failures]]

\* LoginRateLimiter.is_rate_limited: the answer and the map it leaves.
is_rate_limited(attempts, ip, now) ==
    LET failures == prune_and_get(attempts, ip, now)
    IN  [limited |-> Len(failures) > MAX_FAILED_ATTEMPTS,
         attempts |-> [attempts EXCEPT ![ip] = failures]]

\* register_failure keeping one entry for the failures of the same instant, as
\* two calls that each wrote back the deque they had read would.
register_failure_coalescing(attempts, ip, now) ==
    LET pruned == prune_and_get(attempts, ip, now)
        failures == IF pruned # <<>> /\ pruned[Len(pruned)] = now
                    THEN pruned
                    ELSE Append(pruned, now)
    IN  [limited |-> Len(failures) > MAX_FAILED_ATTEMPTS,
         attempts |-> [attempts EXCEPT ![ip] = failures]]

\* LoginRateLimiter.register_failure: the answer and the map it leaves.
register_failure(attempts, ip, now) ==
    LET failures == Append(prune_and_get(attempts, ip, now), now)
    IN  [limited |-> Len(failures) > MAX_FAILED_ATTEMPTS,
         attempts |-> [attempts EXCEPT ![ip] = failures]]

\* reset that forgets to drop the address's history.
reset_keeps_history(attempts, ip) == attempts

\* LoginRateLimiter.reset: self._failed_attempts.pop(ip, None)
reset(attempts, ip) == [attempts EXCEPT ![ip] = <<>>]

\* ------------------------------------------------------------- variables
VARIABLES
    clock,      \* the current time, in ticks (wall clock and monotonic clock)
    ticks,      \* how many times the clock has advanced
    users,      \* the users table, by id
    mfa,        \* the mfa_totp_credentials table: user id -> row, for the users that have one
    sessions,   \* the sessions table, in insertion order
    audit,      \* the audit_logs table, in insertion order
    limiter,    \* LoginRateLimiter._failed_attempts: ip -> deque of timestamps
    nextToken,  \* the next value secrets.token_urlsafe returns
    pc,         \* where each request task stands
    loc,        \* each request task's local variables
    result,     \* what the call that finished last returned or raised
    failLog,    \* history: per ip, the failures since its last reset still in the window
    streak,     \* history: per ip, how many failures were registered since its last reset
    hadSix,     \* history: per ip, the last reset ended a streak of more than the maximum
    redeemed,   \* history: per refresh token, how many refresh calls it paid for
    spent       \* history: per backup code, how many MFA verifications it paid for

vars == <<clock, ticks, users, mfa, sessions, audit, limiter, nextToken,
          pc, loc, result, failLog, streak, hadSix, redeemed, spent>>

dbVars == <<users, mfa, sessions, audit>>
histVars == <<failLog, streak, hadSix, redeemed, spent>>

\* ------------------------------------------------------------------ rows
UserRow(id, name, role, status, secret, mfa_enabled) ==
    [id |-> id, org_id |-> "org1", email |-> [name |-> name, plain |-> TRUE],
     role |-> role, status |-> status,
     auth_verifier_hash |-> Argon2Hash(secret), mfa_enabled |-> mfa_enabled,
     invitation_token_hash |-> NullHash, invitation_expires_at |-> NoTime]

\* Session(user_id, refresh_token_hash, ip_address, expires_at); the primary key
\* is given on insert, revoked_at is NULL.
SessionRow(id, user_id, refresh_token_hash, ip, expires_at) ==
    [id |-> id, user_id |-> user_id, refresh_token_hash |-> refresh_token_hash,
     ip_address |-> ip, expires_at |-> expires_at, revoked_at |-> NoTime]

\* An audit row that names the organisation where the actor belongs.
AuditRow_without_actor(org_id, actor_id, action, target_id, ip) ==
    [org_id |-> org_id, actor_id |-> org_id, action |-> action,
     target_id |-> target_id, ip_address |-> ip]

\* _append_audit_log
AuditRow(org_id, actor_id, action, target_id, ip) ==
    [org_id |-> org_id, actor_id |-> actor_id, action |-> action,
     target_id |-> target_id, ip_address |-> ip]

\* MfaTotpCredential(user_id, totp_secret, backup_code_hashes, confirmed_at)
MfaTotpCredential(user_id, backup_code_hashes, confirmed_at) ==
    [user_id |-> user_id, org_id |-> "org1", totp_secret |-> "secret-" \o user_id,
     backup_code_hashes |-> backup_code_hashes, confirmed_at |-> confirmed_at]

\* The backup codes are numbered; code 0 is a string that was never handed out.
\* A code is typed as it was handed out, in dash-separated groups, or without
\* the dashes.
BackupCode(k, dashed) == [kind |-> "backup", value |-> k, dashed |-> dashed]
TotpCode(step) == [kind |-> "totp", value |-> step]
\* code.replace("-", "")
StripDashes(code) == [code EXCEPT !.dashed = FALSE]
\* The stored form of a backup code: a salted hash that checks against the code
\* without its dashes.
BackupCodeHash(code) == [bcrypt |-> StripDashes(code).value]
\* What enrolment stores: the hashes of the BACKUP_CODE_COUNT codes it handed out.
EnrolledBackupCodes == {BackupCodeHash(BackupCode(k, TRUE)) : k \in 1..BACKUP_CODE_COUNT}

\* issue_invitation_token(user_id, org_id, email, role, now, expires_in): a signed
\* claim set, one token per invited user and time of issue.
issue_invitation_token(user_id, now) == [token |-> <<user_id, now>>]
issue_invitation_token_expiry(now) == now + Days(invitation_token_ttl_days)

\* The invited row keeping the invitation token itself where its digest belongs.
invited_with_raw_token(user, now) ==
    [user EXCEPT !.invitation_token_hash = issue_invitation_token(user.id, now),
                 !.invitation_expires_at = issue_invitation_token_expiry(now)]

\* invite_user, on the row it made: the digest of the invitation token and the
\* token's expiry are stored, never the token.
invited(user, now) ==
    [user EXCEPT !.invitation_token_hash = Sha256(issue_invitation_token(user.id, now)),
                 !.invitation_expires_at = issue_invitation_token_expiry(now)]

Idle == [at |-> "idle"]
NoResult == [op |-> "none"]

\* The timestamps of log that lie in the window that ends at now.
InWindow(log, now) ==
    SelectSeq(log, LAMBDA t : t >= now - Seconds(FAILED_ATTEMPTS_WINDOW_SECONDS))

\* How many failures of ip, registered since its last reset, lie in the window.
FailuresInWindow(ip, now) == Len(InWindow(failLog[ip], now))

\* Tasks past the entry of a call that may still insert a session row.
InFlight == {p \in Procs : pc[p] \in {"login_lookup", "login_fail", "login_commit",
                                      "refresh_expire", "refresh_user", "refresh_commit",
                                      "mfa_verify"}}
HasRoom == Len(sessions) + Cardinality(InFlight) < MaxSessions

TypeOK ==
    /\ clock \in Nat /\ ticks \in 0..MaxTicks
    /\ UserIds \subseteq DOMAIN users
    /\ Len(sessions) <= MaxSessions
    /\ nextToken \in 1..(MaxSessions + 1)
    /\ \A ip \in IPs : \A i \in 1..Len(limiter[ip]) : limiter[ip][i] <= clock

\* The users table at the start: a member, an administrator with MFA, a
\* suspended member, an invited viewer and the owner.
InitialUsers ==
    [u \in UserIds |->
        CASE u = "u1" -> UserRow("u1", "alice", "member", "active", "va", FALSE)
          [] u = "u2" -> UserRow("u2", "bob", "admin", "active", "vb", TRUE)
          [] u = "u3" -> UserRow("u3", "carol", "member", "suspended", "vc", FALSE)
          [] u = "u4" -> invited(UserRow("u4", "dave", "viewer", "invited", "vd", FALSE), 0)
          [] OTHER    -> UserRow("u5", "erin", "owner", "active", "ve", FALSE)]

Init ==
    /\ clock = 0
    /\ ticks = 0
    /\ users = InitialUsers
    /\ mfa = ("u2" :> MfaTotpCredential("u2", EnrolledBackupCodes, 0))
    /\ sessions = <<>>
    /\ audit = <<>>
    /\ limiter = [ip \in IPs |-> <<>>]
    /\ nextToken = 1
    /\ pc = [p \in Procs |-> "idle"]
    /\ loc = [p \in Procs |-> Idle]
    /\ result = NoResult
    /\ failLog = [ip \in IPs |-> <<>>]
    /\ streak = [ip \in IPs |-> 0]
    /\ hadSix = [ip \in IPs |-> FALSE]
    /\ redeemed = [t \in 0..MaxSessions |-> 0]
    /\ spent = [k \in 0..BACKUP_CODE_COUNT |-> 0]

\* ------------------------------------------------------------------ clock
\* Time passes by d ticks.
Tick(d) ==
    /\ ticks < MaxTicks
    /\ clock' = clock + d
    /\ ticks' = ticks + 1
    /\ failLog' = [ip \in IPs |-> InWindow(failLog[ip], clock + d)]
    /\ UNCHANGED <<dbVars, limiter, nextToken, pc, loc, result, streak, hadSix, redeemed, spent>>

\* ------------------------------------------------------------- login_user
\* login_user up to its first await on the database: the rate-limit check at entry.
login_user_start(p, client_ip) ==
    LET entry == is_rate_limited(limiter, client_ip, clock) IN
    /\ pc[p] = "idle"
    /\ HasRoom
    /\ limiter' = entry.attempts
    /\ IF entry.limited
       THEN /\ result' =
                    [op |-> "login", outcome |-> "TooManyAttempts", ip |-> client_ip,
                     stage |-> "entry", prior |-> FailuresInWindow(client_ip, clock),
                     verifies |-> 0, registered |-> 0,
                     \* raised before started = time.monotonic(): no padding sleep.
                     elapsed |-> 0, slept |-> 0]
            /\ UNCHANGED <<pc, loc>>
       ELSE /\ pc' = [pc EXCEPT ![p] = "login_lookup"]
            /\ loc' = [loc EXCEPT ![p] = [ip |-> client_ip]]
            /\ UNCHANGED result
    /\ UNCHANGED <<clock, ticks, dbVars, nextToken, histVars>>

\* _verify_dummy_auth_verifier: one hasher.verify against the dummy hash, its
\* answer dropped.
verify_dummy_auth_verifier(auth_verifier) ==
    [verifies |-> 1, matched |-> HasherVerify(DUMMY_AUTH_VERIFIER_HASH, auth_verifier)]

\* select(User).where(User.email == normalized_email) ... scalar_one_or_none()
find_user_by_email(normalized_email) ==
    {u \in DOMAIN users : users[u].email = normalized_email}

\* login_user from the user lookup to the next await (the padding sleep, or the
\* commit): the lookup, the verification against the stored or the dummy hash and,
\* when it passes, the reset of the limiter and the reading of the clock. The request's e-mail and verifier are
\* drawn here, where the handler first reads them.
login_user_lookup(p, email, auth_verifier) ==
    LET found == find_user_by_email(NormalizeEmail(email))
        ip == loc[p].ip
    IN
    /\ pc[p] = "login_lookup"
    /\ IF found = {}
       THEN /\ pc' = [pc EXCEPT ![p] = "login_fail"]
            /\ loc' = [loc EXCEPT ![p] =
                    [ip |-> ip, case |-> "missing",
                     verifies |-> verify_dummy_auth_verifier(auth_verifier).verifies]]
            /\ UNCHANGED <<limiter, histVars>>
       ELSE LET user == users[CHOOSE u \in found : TRUE]
                is_valid_verifier == HasherVerify(user.auth_verifier_hash, auth_verifier)
            IN  IF ~is_valid_verifier \/ user.status # "active"
                THEN /\ pc' = [pc EXCEPT ![p] = "login_fail"]
                     /\ loc' = [loc EXCEPT ![p] =
                            [ip |-> ip,
                             case |-> IF is_valid_verifier THEN "inactive" ELSE "wrong",
                             verifies |-> 1]]
                     /\ UNCHANGED <<limiter, histVars>>
                ELSE /\ pc' = [pc EXCEPT ![p] = "login_commit"]
                     /\ loc' = [loc EXCEPT ![p] =
                            [ip |-> ip, user |-> user, current_time |-> clock]]
                     /\ limiter' = reset(limiter, ip)
                     /\ hadSix' = [hadSix EXCEPT ![ip] = streak[ip] > MAX_FAILED_ATTEMPTS]
                     /\ streak' = [streak EXCEPT ![ip] = 0]
                     /\ failLog' = [failLog EXCEPT ![ip] = <<>>]
                     /\ UNCHANGED <<redeemed, spent>>
    /\ UNCHANGED <<clock, ticks, dbVars, nextToken, result>>

\* The unknown-e-mail path answering without registering the failure.
login_missing_user_failure_unregistered(attempts, ip, now) ==
    [attempts |-> attempts, raised |-> "InvalidCredentials"]

\* login_user, user is None: after the dummy verification and the padding sleep,
\* register_failure and raise.
login_missing_user_failure(attempts, ip, now) ==
    LET reg == register_failure(attempts, ip, now)
    IN  [attempts |-> reg.attempts,
         raised |-> IF reg.limited THEN "TooManyAttempts" ELSE "InvalidCredentials"]

\* login_user, wrong verifier or user not active: after the padding sleep,
\* register_failure and raise.
login_rejected_user_failure(attempts, ip, now) ==
    LET reg == register_failure(attempts, ip, now)
    IN  [attempts |-> reg.attempts,
         raised |-> IF reg.limited THEN "TooManyAttempts" ELSE "InvalidCredentials"]

\* _sleep_to_minimum_failed_duration: the milliseconds slept, given the
\* milliseconds that time.monotonic() shows since started; 0 is no sleep at all.
sleep_to_minimum_failed_duration(elapsed) ==
    LET remaining == MIN_FAILED_LOGIN_RESPONSE_MILLIS - elapsed
    IN  IF remaining > 0 THEN remaining ELSE 0

\* login_user's failure paths from the padding sleep on, when the lookup and the
\* verification have taken elapsed milliseconds.
login_user_fail_after(p, elapsed) ==
    LET ip == loc[p].ip
        reg == IF loc[p].case = "missing"
               THEN login_missing_user_failure(limiter, ip, clock)
               ELSE login_rejected_user_failure(limiter, ip, clock)
    IN
    /\ pc[p] = "login_fail"
    /\ limiter' = reg.attempts
    /\ failLog' = [failLog EXCEPT ![ip] = Append(@, clock)]
    /\ streak' = [streak EXCEPT ![ip] =
                    IF @ > MAX_FAILED_ATTEMPTS THEN @ ELSE @ + 1]
    /\ result' =
            [op |-> "login",
             outcome |-> reg.raised,
             ip |-> ip, stage |-> "verify", case |-> loc[p].case,
             prior |-> FailuresInWindow(ip, clock),
             verifies |-> loc[p].verifies,
             registered |-> Len(reg.attempts[ip]) - Len(prune_and_get(limiter, ip, clock)),
             elapsed |-> elapsed,
             slept |-> sleep_to_minimum_failed_duration(elapsed)]
    /\ pc' = [pc EXCEPT ![p] = "idle"]
    /\ loc' = [loc EXCEPT ![p] = Idle]
    /\ UNCHANGED <<clock, ticks, dbVars, nextToken, hadSix, redeemed, spent>>

\* login_user's failure paths with a lookup and a verification that took no
\* measurable time.
login_user_fail(p) == login_user_fail_after(p, 0)

\* The session row keeping the refresh token itself instead of its digest.
login_session_raw_token(user, refresh_token, ip, now) ==
    SessionRow(Len(sessions) + 1, user.id, refresh_token, ip,
               now + Days(jwt_refresh_ttl_days))

\* login_user: Session(user_id, refresh_token_hash, device_info, ip_address, expires_at)
login_session(user, refresh_token, ip, now) ==
    SessionRow(Len(sessions) + 1, user.id, Sha256(refresh_token), ip,
               now + Days(jwt_refresh_ttl_days))

\* login_user's success path: issue the tokens, insert the session row and the
\* audit row, commit.
login_user_commit(p) ==
    LET ip == loc[p].ip
        user == loc[p].user
        current_time == loc[p].current_time
        access_token == issue_access_token(user.id, user.org_id, user.email,
                                           user.role, current_time)
        refresh_token == TokenUrlsafe(nextToken)
        session == login_session(user, refresh_token, ip, current_time)
    IN
    /\ pc[p] = "login_commit"
    /\ nextToken' = nextToken + 1
    /\ sessions' = Append(sessions, session)
    \* session.id is read before the row is flushed: the column default has not run.
    /\ audit' = Append(audit, AuditRow(user.org_id, user.id, "login", NoId, ip))
    /\ result' =
            [op |-> "login", outcome |-> "ok", ip |-> ip,
             access_token |-> access_token, refresh_token |-> refresh_token,
             user |-> user]
    /\ pc' = [pc EXCEPT ![p] = "idle"]
    /\ loc' = [loc EXCEPT ![p] = Idle]
    /\ UNCHANGED <<clock, ticks, users, mfa, limiter, histVars>>

\* --------------------------------------------------------- refresh_tokens
\* _uuids_equal(left, right)
uuids_equal(left, right) == left = right

\* The expiry test that spares the instant of expiry itself.
is_expired_after(expires_at, reference) == expires_at < reference

\* _is_expired(expires_at, reference)
is_expired(expires_at, reference) == expires_at <= reference

\* _find_active_user_by_identifier: the active users, searched for the id.
find_active_user_by_identifier(identifier) ==
    {u \in DOMAIN users : users[u].status = "active" /\ users[u].id = identifier}

\* select(Session).where(refresh_token_hash == hash, revoked_at IS NULL)
unrevoked_sessions_by_hash(refresh_token_hash) ==
    {i \in 1..Len(sessions) :
        /\ sessions[i].refresh_token_hash = refresh_token_hash
        /\ sessions[i].revoked_at = NoTime}

\* A revocation that is never written.
revoke_session_dropped(rows, id, now) == rows

\* session.revoked_at = current_time, flushed at commit as UPDATE ... WHERE id = :id
revoke_session(rows, id, now) ==
    [i \in 1..Len(rows) |->
        IF rows[i].id = id THEN [rows[i] EXCEPT !.revoked_at = now] ELSE rows[i]]

RefreshRaised(refresh_token) ==
    [op |-> "refresh", outcome |-> "InvalidRefreshToken", token |-> refresh_token]

\* refresh_tokens up to its second await: the read of the unrevoked session row
\* with the token's digest, and the expiry test.
refresh_tokens_start(p, refresh_token, client_ip) ==
    LET current_time == clock
        found == unrevoked_sessions_by_hash(Sha256(refresh_token))
    IN
    /\ pc[p] = "idle"
    /\ found # {} => HasRoom
    /\ IF found = {}
       THEN /\ result' = RefreshRaised(refresh_token)
            /\ UNCHANGED <<pc, loc>>
       ELSE IF Cardinality(found) > 1
       THEN /\ result' = [op |-> "refresh", outcome |-> "MultipleResultsFound",
                          token |-> refresh_token]
            /\ UNCHANGED <<pc, loc>>
       ELSE LET current_session == sessions[CHOOSE i \in found : TRUE] IN
            /\ pc' = [pc EXCEPT ![p] =
                    IF is_expired(current_session.expires_at, current_time)
                    THEN "refresh_expire" ELSE "refresh_user"]
            /\ loc' = [loc EXCEPT ![p] =
                    [ip |-> client_ip, token |-> refresh_token,
                     current_time |-> current_time, current_session |-> current_session]]
            /\ UNCHANGED result
    /\ UNCHANGED <<clock, ticks, dbVars, limiter, nextToken, histVars>>

\* refresh_tokens, expired session: revoke it, commit, raise.
refresh_tokens_expire(p) ==
    /\ pc[p] = "refresh_expire"
    /\ sessions' = revoke_session(sessions, loc[p].current_session.id, loc[p].current_time)
    /\ result' = RefreshRaised(loc[p].token)
    /\ pc' = [pc EXCEPT ![p] = "idle"]
    /\ loc' = [loc EXCEPT ![p] = Idle]
    /\ UNCHANGED <<clock, ticks, users, mfa, audit, limiter, nextToken, histVars>>

\* refresh_tokens: the read of the session's owner among the active users.
refresh_tokens_user(p) ==
    LET found == find_active_user_by_identifier(loc[p].current_session.user_id) IN
    /\ pc[p] = "refresh_user"
    /\ IF found = {} \/ (\E u \in found : users[u].status # "active")
       THEN /\ result' = RefreshRaised(loc[p].token)
            /\ pc' = [pc EXCEPT ![p] = "idle"]
            /\ loc' = [loc EXCEPT ![p] = Idle]
       ELSE /\ pc' = [pc EXCEPT ![p] = "refresh_commit"]
            /\ loc' = [loc EXCEPT ![p] = @ @@ [user |-> users[CHOOSE u \in found : TRUE]]]
            /\ UNCHANGED result
    /\ UNCHANGED <<clock, ticks, dbVars, limiter, nextToken, histVars>>

\* The successor taking over the latest expiry among the sessions of its user.
rotated_session_inheriting(user, next_refresh_token, ip, now) ==
    LET owned == {i \in 1..Len(sessions) : sessions[i].user_id = user.id}
        latest == CHOOSE i \in owned : \A j \in owned : sessions[j].expires_at <= sessions[i].expires_at
    IN  SessionRow(Len(sessions) + 1, user.id, Sha256(next_refresh_token), ip,
                   sessions[latest].expires_at)

\* refresh_tokens: Session(user_id, refresh_token_hash, device_info, ip_address, expires_at)
rotated_session(user, next_refresh_token, ip, now) ==
    SessionRow(Len(sessions) + 1, user.id, Sha256(next_refresh_token), ip,
               now + Days(jwt_refresh_ttl_days))

\* The successor inserted while the session redeemed keeps its NULL revoked_at.
rotate_keeping_redeemed(rows, current_session, rotated, now) ==
    Append(rows, rotated)

\* current_session.revoked_at = current_time; db.add(rotated_session): the UPDATE
\* and the INSERT that the one commit of refresh_tokens flushes together.
rotate(rows, current_session, rotated, now) ==
    Append(revoke_session(rows, current_session.id, now), rotated)

\* refresh_tokens, the rotation: revoke the session read, insert its successor and
\* the audit row, commit.
refresh_tokens_commit(p) ==
    LET user == loc[p].user
        current_time == loc[p].current_time
        next_refresh_token == TokenUrlsafe(nextToken)
        rotated == rotated_session(user, next_refresh_token, loc[p].ip, current_time)
        access_token == issue_access_token(user.id, user.org_id, user.email,
                                           user.role, current_time)
    IN
    /\ pc[p] = "refresh_commit"
    /\ nextToken' = nextToken + 1
    /\ sessions' = rotate(sessions, loc[p].current_session, rotated, current_time)
    \* rotated_session.id is read before the row is flushed.
    /\ audit' = Append(audit, AuditRow(user.org_id, user.id, "refresh_token", NoId, loc[p].ip))
    /\ result' = [op |-> "refresh", outcome |-> "ok", token |-> loc[p].token,
                  access_token |-> access_token, refresh_token |-> next_refresh_token]
    /\ redeemed' = [redeemed EXCEPT ![loc[p].token.token] = @ + 1]
    /\ pc' = [pc EXCEPT ![p] = "idle"]
    /\ loc' = [loc EXCEPT ![p] = Idle]
    /\ UNCHANGED <<clock, ticks, users, mfa, limiter, failLog, streak, hadSix, spent>>

\* refresh_tokens cancelled at one of its awaits after the session read (the user
\* lookup, the commit): CancelledError leaves the function, and the request's
\* AsyncSession is closed by its context manager, which rolls back what the
\* transaction had pending.
refresh_tokens_cancel(p) ==
    /\ pc[p] \in {"refresh_user", "refresh_commit"}
    /\ result' = [op |-> "refresh", outcome |-> "CancelledError", token |-> loc[p].token]
    /\ pc' = [pc EXCEPT ![p] = "idle"]
    /\ loc' = [loc EXCEPT ![p] = Idle]
    /\ UNCHANGED <<clock, ticks, dbVars, limiter, nextToken, histVars>>

\* ------------------------------------------------------- session revocation
\* The user a valid bearer token names, whatever the users table says of it now.
user_from_access_token_by_claims(access_token, now) ==
    LET validated == validate_access_token(access_token, now)
    IN  IF validated.ok THEN {u \in DOMAIN users : u = validated.payload.sub} ELSE {}

\* get_user_from_access_token as the revoke functions call it: the active user
\* the bearer token names, or nobody.
user_from_access_token(access_token, now) ==
    LET validated == validate_access_token(access_token, now)
        found == IF validated.ok
                 THEN find_active_user_by_identifier(validated.payload.sub)
                 ELSE {}
    IN  {u \in found :
            /\ users[u].status = "active"
            /\ users[u].email = validated.payload.email
            /\ uuids_equal(users[u].org_id, validated.payload.org_id)}

\* The ownership test passing for any session found.
sessions_owned_by_anyone(found, user) == found

\* auth_session.user_id == current_user.id, on the rows a read returned.
sessions_owned_by(found, user) ==
    {i \in found : uuids_equal(sessions[i].user_id, user.id)}

RevokeRaised(op, kind, actor, target) ==
    [op |-> op, outcome |-> kind, actor |-> actor, target |-> target]

\* revoke_session_by_refresh_token up to the session read: the clock is read and
\* the caller resolved from the access token.
revoke_session_by_refresh_token_start(p, access_token, refresh_token, client_ip) ==
    LET current_time == clock
        current_user == user_from_access_token(access_token, clock)
    IN
    /\ pc[p] = "idle"
    /\ IF current_user = {}
       THEN /\ result' = RevokeRaised("logout", "InvalidAccessToken", None, refresh_token)
            /\ UNCHANGED <<pc, loc>>
       ELSE /\ pc' = [pc EXCEPT ![p] = "logout_read"]
            /\ loc' = [loc EXCEPT ![p] =
                    [ip |-> client_ip, current_time |-> current_time,
                     current_user |-> users[CHOOSE u \in current_user : TRUE],
                     target |-> refresh_token]]
            /\ UNCHANGED result
    /\ UNCHANGED <<clock, ticks, dbVars, limiter, nextToken, histVars>>

\* revoke_session_by_refresh_token: the read of the unrevoked session with the
\* token's digest and the ownership test.
revoke_session_by_refresh_token_read(p) ==
    LET found == unrevoked_sessions_by_hash(Sha256(loc[p].target))
        owned == sessions_owned_by(found, loc[p].current_user)
    IN
    /\ pc[p] = "logout_read"
    /\ IF found = {} \/ owned = {}
       THEN /\ result' = RevokeRaised("logout", "SessionNotFound",
                                      loc[p].current_user.id, loc[p].target)
            /\ pc' = [pc EXCEPT ![p] = "idle"]
            /\ loc' = [loc EXCEPT ![p] = Idle]
       ELSE /\ pc' = [pc EXCEPT ![p] = "logout_commit"]
            /\ loc' = [loc EXCEPT ![p] = @ @@ [auth_session |-> sessions[CHOOSE i \in owned : TRUE]]]
            /\ UNCHANGED result
    /\ UNCHANGED <<clock, ticks, dbVars, limiter, nextToken, histVars>>

\* revoke_session_by_refresh_token: revoked_at set, the logout audit row, commit.
revoke_session_by_refresh_token_commit(p) ==
    LET current_user == loc[p].current_user
        auth_session == loc[p].auth_session
    IN
    /\ pc[p] = "logout_commit"
    /\ sessions' = revoke_session(sessions, auth_session.id, loc[p].current_time)
    /\ audit' = Append(audit, AuditRow(current_user.org_id, current_user.id, "logout",
                                       auth_session.id, loc[p].ip))
    /\ result' = [op |-> "logout", outcome |-> "ok", actor |-> current_user.id,
                  target |-> loc[p].target, session_id |-> auth_session.id]
    /\ pc' = [pc EXCEPT ![p] = "idle"]
    /\ loc' = [loc EXCEPT ![p] = Idle]
    /\ UNCHANGED <<clock, ticks, users, mfa, limiter, nextToken, histVars>>

\* db.get(Session, session_id): the row with that primary key, revoked or not.
session_by_id(session_id) == {i \in 1..Len(sessions) : sessions[i].id = session_id}

\* The session stamped again with the time of a later call.
revoke_unless_revoked_always(rows, target_session, now) ==
    revoke_session(rows, target_session.id, now)

\* if target_session.revoked_at is None: target_session.revoked_at = current_time;
\* the test is made on the row as it was read, and an unchanged row is not written.
revoke_unless_revoked(rows, target_session, now) ==
    IF target_session.revoked_at = NoTime
    THEN revoke_session(rows, target_session.id, now)
    ELSE rows

\* revoke_session_by_id up to the session read.
revoke_session_by_id_start(p, access_token, session_id, client_ip) ==
    LET current_time == clock
        current_user == user_from_access_token(access_token, clock)
    IN
    /\ pc[p] = "idle"
    /\ IF current_user = {}
       THEN /\ result' = RevokeRaised("session_revoke", "InvalidAccessToken", None, session_id)
            /\ UNCHANGED <<pc, loc>>
       ELSE /\ pc' = [pc EXCEPT ![p] = "revoke_read"]
            /\ loc' = [loc EXCEPT ![p] =
                    [ip |-> client_ip, current_time |-> current_time,
                     current_user |-> users[CHOOSE u \in current_user : TRUE],
                     target |-> session_id]]
            /\ UNCHANGED result
    /\ UNCHANGED <<clock, ticks, dbVars, limiter, nextToken, histVars>>

\* revoke_session_by_id: the read by primary key and the ownership test.
revoke_session_by_id_read(p) ==
    LET found == session_by_id(loc[p].target)
        owned == sessions_owned_by(found, loc[p].current_user)
    IN
    /\ pc[p] = "revoke_read"
    /\ IF found = {} \/ owned = {}
       THEN /\ result' = RevokeRaised("session_revoke", "SessionNotFound",
                                      loc[p].current_user.id, loc[p].target)
            /\ pc' = [pc EXCEPT ![p] = "idle"]
            /\ loc' = [loc EXCEPT ![p] = Idle]
       ELSE /\ pc' = [pc EXCEPT ![p] = "revoke_commit"]
            /\ loc' = [loc EXCEPT ![p] = @ @@ [target_session |-> sessions[CHOOSE i \in owned : TRUE]]]
            /\ UNCHANGED result
    /\ UNCHANGED <<clock, ticks, dbVars, limiter, nextToken, histVars>>

\* revoke_session_by_id: revoked_at set when the row read had none, the
\* session_revoke audit row, commit.
revoke_session_by_id_commit(p) ==
    LET current_user == loc[p].current_user
        target_session == loc[p].target_session
    IN
    /\ pc[p] = "revoke_commit"
    /\ sessions' = revoke_unless_revoked(sessions, target_session, loc[p].current_time)
    /\ audit' = Append(audit, AuditRow(current_user.org_id, current_user.id, "session_revoke",
                                       target_session.id, loc[p].ip))
    /\ result' = [op |-> "session_revoke", outcome |-> "ok", actor |-> current_user.id,
                  target |-> loc[p].target, session_id |-> target_session.id,
                  was_revoked |-> target_session.revoked_at # NoTime]
    /\ pc' = [pc EXCEPT ![p] = "idle"]
    /\ loc' = [loc EXCEPT ![p] = Idle]
    /\ UNCHANGED <<clock, ticks, users, mfa, limiter, nextToken, histVars>>

\* ------------------------------------------------------------- MFA verify
TOTP_PERIOD_SECONDS == 30
TotpStep(now) == IntTimestamp(now) \div TOTP_PERIOD_SECONDS
\* A TOTP code is good for the current time step and its two neighbours.
totp_code_valid(code, now) ==
    /\ code.kind = "totp"
    /\ code.value \in (TotpStep(now) - 1)..(TotpStep(now) + 1)

MfaRaised(kind, code, raced) ==
    [op |-> "mfa_verify", outcome |-> kind, code |-> code, raced |-> raced]

\* A credential row taken for an enrolment whether it was confirmed or not.
mfa_enrolled_on_any_row(credentials, user_id) == user_id \in DOMAIN credentials

\* The MFA credential of the token's subject is there and confirmed.
mfa_enrolled(credentials, user_id) ==
    /\ user_id \in DOMAIN credentials
    /\ credentials[user_id].confirmed_at # NoTime

\* verify, up to the credential it loaded: the challenge token is validated and
\* the confirmed credential of its subject read.
verify_mfa_and_issue_tokens_start(p, mfa_token, code, client_ip) ==
    LET validated == validate_mfa_token(mfa_token, clock)
        user_id == validated.payload.sub
    IN
    /\ pc[p] = "idle"
    /\ HasRoom
    /\ IF ~validated.ok
       THEN /\ result' = MfaRaised("InvalidMfaToken", code, FALSE)
            /\ UNCHANGED <<pc, loc>>
       ELSE IF ~mfa_enrolled(mfa, user_id)
       THEN /\ result' = MfaRaised("MfaNotEnrolled", code, FALSE)
            /\ UNCHANGED <<pc, loc>>
       ELSE /\ pc' = [pc EXCEPT ![p] = "mfa_verify"]
            /\ loc' = [loc EXCEPT ![p] = [ip |-> client_ip, user |-> users[user_id],
                                          code |-> code, credential |-> mfa[user_id]]]
            /\ UNCHANGED result
    /\ UNCHANGED <<clock, ticks, dbVars, limiter, nextToken, histVars>>

\* A backup code tested against the hashes the call read when it started.
backup_code_matches_loaded(stored, loaded, code) ==
    code.kind = "backup" /\ BackupCodeHash(code) \in loaded

\* A backup code matches when its hash is in the stored set at the moment of use.
backup_code_matches(stored, loaded, code) ==
    code.kind = "backup" /\ BackupCodeHash(code) \in stored

\* A used backup code left in the stored set.
remove_backup_code_kept(stored, code) == stored

\* The stored set without the hash of the backup code just used.
remove_backup_code(stored, code) == stored \ {BackupCodeHash(code)}

\* verify, the decision: a current TOTP code, or a backup code that is removed
\* from the stored set in the same step; then the session of login's success path.
verify_mfa_and_issue_tokens_commit(p) ==
    LET user == loc[p].user
        code == loc[p].code
        stored == mfa[user.id].backup_code_hashes
        by_backup == backup_code_matches(stored, loc[p].credential.backup_code_hashes, code)
        refresh_token == TokenUrlsafe(nextToken)
        raced == code.kind = "backup" /\
                 BackupCodeHash(code) \in loc[p].credential.backup_code_hashes
    IN
    /\ pc[p] = "mfa_verify"
    /\ IF totp_code_valid(code, clock) \/ by_backup
       THEN /\ mfa' = IF by_backup
                      THEN [mfa EXCEPT ![user.id].backup_code_hashes =
                                            remove_backup_code(@, code)]
                      ELSE mfa
            /\ spent' = IF by_backup THEN [spent EXCEPT ![code.value] = @ + 1] ELSE spent
            /\ nextToken' = nextToken + 1
            /\ sessions' = Append(sessions, login_session(user, refresh_token, loc[p].ip, clock))
            /\ audit' = Append(audit, AuditRow(user.org_id, user.id, "login", NoId, loc[p].ip))
            /\ result' = [op |-> "mfa_verify", outcome |-> "ok", code |-> code, raced |-> raced,
                          access_token |-> issue_access_token(user.id, user.org_id, user.email,
                                                              user.role, clock),
                          refresh_token |-> refresh_token, user |-> user]
       ELSE /\ result' = MfaRaised("InvalidMfaCode", code, raced)
            /\ UNCHANGED <<mfa, spent, nextToken, sessions, audit>>
    /\ pc' = [pc EXCEPT ![p] = "idle"]
    /\ loc' = [loc EXCEPT ![p] = Idle]
    /\ UNCHANGED <<clock, ticks, users, limiter, failLog, streak, hadSix, redeemed>>

\* ------------------------------------------------- MFA enrolment, confirmation
\* The backup codes enrolment hands out, as typed on the page that shows them.
issued_backup_codes == {BackupCode(k, TRUE) : k \in 1..BACKUP_CODE_COUNT}

\* enroll: a fresh secret and BACKUP_CODE_COUNT backup codes; the credential row
\* of the user holds the secret and the hashes of the codes, unconfirmed; the
\* codes themselves go back to the caller and are kept nowhere.
enroll_totp_mfa(current_user) ==
    /\ \A p \in Procs : pc[p] = "idle"
    /\ mfa' = (current_user :>
                   MfaTotpCredential(current_user,
                                     {BackupCodeHash(code) : code \in issued_backup_codes},
                                     NoTime)) @@ mfa
    /\ result' = [op |-> "enroll", user |-> current_user, outcome |-> "ok",
                  backup_codes |-> issued_backup_codes, at |-> clock]
    /\ UNCHANGED <<clock, ticks, users, sessions, audit, limiter, nextToken, pc, loc, histVars>>

\* The user has a credential that was never confirmed.
pending_credential(current_user) ==
    current_user \in DOMAIN mfa /\ mfa[current_user].confirmed_at = NoTime

\* The code presented at confirmation against the live TOTP of the stored secret.
confirm_code_valid_any_totp(code, now) == code.kind = "totp"
confirm_code_valid(code, now) == totp_code_valid(code, now)

\* confirm: without a pending credential MfaNotEnrolled, with a wrong code
\* InvalidMfaCode; else the credential is stamped, the user's flag set and
\* mfa_enable audited, in one transaction.
confirm_totp_mfa(current_user, code, client_ip) ==
    /\ \A p \in Procs : pc[p] = "idle"
    /\ IF ~pending_credential(current_user)
       THEN /\ result' = [op |-> "confirm", user |-> current_user,
                          outcome |-> "MfaNotEnrolled", code |-> code, at |-> clock]
            /\ UNCHANGED <<users, mfa, audit>>
       ELSE IF ~confirm_code_valid(code, clock)
       THEN /\ result' = [op |-> "confirm", user |-> current_user,
                          outcome |-> "InvalidMfaCode", code |-> code, at |-> clock]
            /\ UNCHANGED <<users, mfa, audit>>
       ELSE /\ mfa' = [mfa EXCEPT ![current_user].confirmed_at = clock]
            /\ users' = [users EXCEPT ![current_user].mfa_enabled = TRUE]
            /\ audit' = Append(audit, AuditRow(users[current_user].org_id, current_user,
                                               "mfa_enable", current_user, client_ip))
            /\ result' = [op |-> "confirm", user |-> current_user,
                          outcome |-> "ok", code |-> code, at |-> clock]
    /\ UNCHANGED <<clock, ticks, sessions, limiter, nextToken, pc, loc, histVars>>

\* ------------------------------------------------ access token resolution
\* get_current_user: InvalidAccessTokenError becomes 401 Unauthorized.
get_current_user_status(resolved) == IF resolved THEN 200 ELSE 401

\* get_user_from_access_token, called by get_current_user for every protected
\* route: validate the bearer token, then load the active user it names.
get_user_from_access_token(access_token, minted) ==
    LET validated == validate_access_token(access_token, clock)
        found == IF validated.ok
                 THEN find_active_user_by_identifier(validated.payload.sub)
                 ELSE {}
        admitted == {u \in found :
                        /\ users[u].status = "active"
                        /\ users[u].email = validated.payload.email
                        /\ uuids_equal(users[u].org_id, validated.payload.org_id)}
    IN
    /\ result' = [op |-> "authorize", minted |-> minted, token |-> access_token, at |-> clock,
                  outcome |-> IF admitted = {} THEN "InvalidAccessToken" ELSE "ok",
                  status |-> get_current_user_status(admitted # {}),
                  principal |-> IF admitted = {} THEN None ELSE CHOOSE u \in admitted : TRUE]
    /\ UNCHANGED <<clock, ticks, dbVars, limiter, nextToken, pc, loc, histVars>>

\* validate_mfa_token, called on a bearer string: what it returned, or that it
\* raised MfaTokenValidationError.
validate_mfa_token_call(mfa_token, minted) ==
    /\ result' = [op |-> "validate_mfa", minted |-> minted, token |-> mfa_token,
                  at |-> clock, ok |-> validate_mfa_token(mfa_token, clock).ok]
    /\ UNCHANGED <<clock, ticks, dbVars, limiter, nextToken, pc, loc, histVars>>

\* ------------------------------------------------------------ register_user
\* User.id, default=uuid.uuid4: the n-th row of the table gets the n-th id.
uuid4(n) == "u" \o ToString(n)

\* User(org_id, email=payload.email.strip().lower(), role=MEMBER, status=ACTIVE,
\* auth_verifier_hash=hasher.hash(payload.auth_verifier)); mfa_enabled defaults
\* to false. The row has no primary key until it is flushed.
new_user(email, auth_verifier) ==
    [id |-> None, org_id |-> "org1", email |-> NormalizeEmail(email),
     role |-> "member", status |-> "active",
     auth_verifier_hash |-> Argon2Hash(auth_verifier), mfa_enabled |-> FALSE,
     invitation_token_hash |-> NullHash, invitation_expires_at |-> NoTime]

\* UniqueConstraint("email", name="uq_users_email"): the rows an insert of email
\* collides with.
uq_users_email_off(rows, email) == {}
uq_users_email(rows, email) == {u \in DOMAIN rows : rows[u].email = email}

\* _is_duplicate_email_error: the violated constraint is the one on users.email.
is_duplicate_email_error(constraint) == constraint = "uq_users_email"

\* register_user up to "await db.commit()": the row is built and added to the
\* session, nothing is sent to the database.
register_user_start(p, email, auth_verifier) ==
    /\ pc[p] = "idle"
    /\ pc' = [pc EXCEPT ![p] = "register_commit"]
    /\ loc' = [loc EXCEPT ![p] = [user |-> new_user(email, auth_verifier)]]
    /\ UNCHANGED <<clock, ticks, dbVars, limiter, nextToken, result, histVars>>

\* "await db.commit()", and on success db.refresh and the return: the insert
\* takes effect unless a row holds the e-mail, and then commit raises
\* IntegrityError and nothing is stored.
register_user_commit(p) ==
    /\ pc[p] = "register_commit"
    /\ LET user == loc[p].user
           id == uuid4(Cardinality(DOMAIN users) + 1)
       IN  IF uq_users_email(users, user.email) = {}
           THEN /\ users' = (id :> [user EXCEPT !.id = id]) @@ users
                /\ pc' = [pc EXCEPT ![p] = "idle"]
                /\ loc' = [loc EXCEPT ![p] = Idle]
                /\ result' = [op |-> "register", proc |-> p, outcome |-> "ok",
                              id |-> id, email |-> user.email]
           ELSE /\ pc' = [pc EXCEPT ![p] = "register_rollback"]
                /\ loc' = [loc EXCEPT ![p] = [user |-> user, exc |-> "uq_users_email"]]
                /\ UNCHANGED <<users, result>>
    /\ UNCHANGED <<clock, ticks, mfa, sessions, audit, limiter, nextToken, histVars>>

\* "await db.rollback()" and the raise: the pending row is dropped with the
\* session's transaction.
register_user_rollback(p) ==
    /\ pc[p] = "register_rollback"
    /\ pc' = [pc EXCEPT ![p] = "idle"]
    /\ loc' = [loc EXCEPT ![p] = Idle]
    /\ result' = [op |-> "register", proc |-> p,
                  outcome |-> IF is_duplicate_email_error(loc[p].exc)
                              THEN "DuplicateEmail" ELSE "IntegrityError",
                  id |-> None, email |-> loc[p].user.email]
    /\ UNCHANGED <<clock, ticks, dbVars, limiter, nextToken, histVars>>

\* ------------------------------------------------------------- invitations
\* invite_user up to its commit, as one transaction: the invited row is flushed,
\* and a taken e-mail raises IntegrityError, which is rolled back and raised as a
\* conflict; else the invitation's digest and expiry are set on the row,
\* invite_user is audited and all is committed; the link with the token is still
\* to be mailed.
invite_user(p, current_user, email, role, client_ip) ==
    LET normalized_email == NormalizeEmail(email)
        id == uuid4(Cardinality(DOMAIN users) + 1)
        invited_user == [new_user(email, "unguessable") EXCEPT
                             !.id = id, !.role = role, !.status = "invited"]
    IN  /\ \A q \in Procs : pc[q] = "idle"
        /\ IF uq_users_email(users, normalized_email) # {}
           THEN /\ result' = [op |-> "invite", outcome |-> "InviteUserConflict",
                              email |-> normalized_email, at |-> clock]
                /\ UNCHANGED <<users, audit, pc, loc>>
           ELSE /\ users' = (id :> invited(invited_user, clock)) @@ users
                /\ audit' = Append(audit, AuditRow(users[current_user].org_id, current_user,
                                                   "invite_user", id, client_ip))
                /\ pc' = [pc EXCEPT ![p] = "invite_send"]
                /\ loc' = [loc EXCEPT ![p] =
                        [recipient_email |-> invited_user.email,
                         invitation_link |-> issue_invitation_token(id, clock),
                         at |-> clock]]
                /\ UNCHANGED result
        /\ UNCHANGED <<clock, ticks, mfa, sessions, limiter, nextToken, histVars>>

\* invite_user after its commit: email_sender.send_invitation(recipient_email,
\* invitation_link), and the invited user is returned.
invite_user_send(p) ==
    /\ pc[p] = "invite_send"
    /\ result' = [op |-> "invite", outcome |-> "ok",
                  email |-> loc[p].recipient_email, at |-> loc[p].at,
                  sent |-> [recipient_email |-> loc[p].recipient_email,
                            invitation_link |-> loc[p].invitation_link]]
    /\ pc' = [pc EXCEPT ![p] = "idle"]
    /\ loc' = [loc EXCEPT ![p] = Idle]
    /\ UNCHANGED <<clock, ticks, dbVars, limiter, nextToken, histVars>>

\* The invited users whose stored digest is that of the token and whose
\* invitation has not expired at now.
open_invitations(invitation_token, now) ==
    {u \in DOMAIN users :
        /\ users[u].invitation_token_hash = Sha256(invitation_token)
        /\ ~is_expired(users[u].invitation_expires_at, now)}

\* The invited row once the invitation is redeemed: active, with the verifier
\* hash of the registration, the invitation's digest and expiry cleared.
accept_invite_left_open(user, auth_verifier) ==
    [user EXCEPT !.status = "active",
                 !.auth_verifier_hash = Argon2Hash(auth_verifier)]
accept_invite(user, auth_verifier) ==
    [user EXCEPT !.status = "active",
                 !.auth_verifier_hash = Argon2Hash(auth_verifier),
                 !.invitation_token_hash = NullHash,
                 !.invitation_expires_at = NoTime]

\* register with an invitation token: the invited user the token opens is
\* activated, the invitation consumed and accept_invite audited in one
\* transaction; a token that opens no invitation is answered with Gone.
register_user_with_invitation(email, auth_verifier, invitation_token, client_ip) ==
    LET found == open_invitations(invitation_token, clock)
    IN  /\ \A p \in Procs : pc[p] = "idle"
        /\ IF found = {}
           THEN /\ result' = [op |-> "accept", outcome |-> "InvitationExpiredOrConsumed",
                              status |-> 410, token |-> invitation_token,
                              auth_verifier |-> auth_verifier, at |-> clock]
                /\ UNCHANGED <<users, audit>>
           ELSE LET u == CHOOSE u \in found : TRUE
                IN  /\ users' = [users EXCEPT ![u] = accept_invite(users[u], auth_verifier)]
                    /\ audit' = Append(audit, AuditRow(users[u].org_id, u,
                                                       "accept_invite", u, client_ip))
                    /\ result' = [op |-> "accept", outcome |-> "ok",
                                  status |-> 201, token |-> invitation_token,
                                  auth_verifier |-> auth_verifier, at |-> clock]
        /\ UNCHANGED <<clock, ticks, mfa, sessions, limiter, nextToken, pc, loc, histVars>>

\* ------------------------------------------------------------------ preauth
\* The Argon2Params of the response: the same literals whatever the request.
preauth_argon2_params_of_known_users(email) ==
    [memory_kib |-> IF \E u \in DOMAIN users : users[u].email = NormalizeEmail(email)
                    THEN 65536 ELSE 0,
     iterations |-> 3, parallelism |-> 4,
     hash_len |-> 32, salt_len |-> 16, type |-> "argon2id"]
preauth_argon2_params(email) ==
    [memory_kib |-> 65536, iterations |-> 3, parallelism |-> 4,
     hash_len |-> 32, salt_len |-> 16, type |-> "argon2id"]

\* preauth: no await, no database session, no limiter; the request is not read.
preauth(email) ==
    /\ result' = [op |-> "preauth", email |-> email, status |-> 200,
                  argon2_params |-> preauth_argon2_params(email)]
    /\ UNCHANGED <<clock, ticks, dbVars, limiter, nextToken, pc, loc, histVars>>

\* ------------------------------------------------------------ require_role
\* _ROLE_RANK
ROLE_RANK_flat(role) == 1
ROLE_RANK(role) ==
    CASE role = "viewer" -> 0
      [] role = "member" -> 1
      [] role = "manager" -> 2
      [] role = "admin" -> 3
      [] role = "owner" -> 4

\* _normalize_role: the role's value, or None for what is no role.
normalize_role(role) == IF role \in UserRole THEN role ELSE None

\* role_dependency of require_role(required_role), on the user get_current_user
\* resolved: 403 for a user without a role or of a lower rank.
role_dependency_status(current_user, required_role) ==
    LET current_role == normalize_role(current_user.role)
    IN  IF current_role = None THEN 403
        ELSE IF ROLE_RANK(current_role) < ROLE_RANK(normalize_role(required_role)) THEN 403
        ELSE 200

\* A route behind require_role(required_role), called with a bearer token:
\* get_current_user answers 401 for a token that resolves to nobody, else the
\* role dependency decides on the user row loaded.
require_role(required_role, access_token) ==
    LET current_user == user_from_access_token(access_token, clock)
        status == IF current_user = {} THEN get_current_user_status(FALSE)
                  ELSE role_dependency_status(users[CHOOSE u \in current_user : TRUE],
                                              required_role)
    IN  /\ result' = [op |-> "require_role", required_role |-> required_role,
                      token |-> access_token, at |-> clock, status |-> status,
                      principal |-> IF status = 200 THEN current_user ELSE {}]
        /\ UNCHANGED <<clock, ticks, dbVars, limiter, nextToken, pc, loc, histVars>>

\* require_admin
require_admin == {u \in DOMAIN users :
                     users[u].status = "active" /\
                     role_dependency_status(users[u], "admin") = 200}

\* _get_org_user_or_raise
get_org_user(org_id, user_id) ==
    {u \in DOMAIN users :
        uuids_equal(users[u].org_id, org_id) /\ uuids_equal(users[u].id, user_id)}

OrgRaised(op, kind, actor, target) ==
    [op |-> op, outcome |-> kind, actor |-> actor, target |-> target]

\* change_organization_user_role up to its update: the target is read and an
\* owner's role refused.
change_organization_user_role_start(p, current_user, user_id, role, client_ip) ==
    LET target_user == get_org_user(users[current_user].org_id, user_id)
    IN
    /\ pc[p] = "idle"
    /\ IF target_user = {}
       THEN /\ result' = OrgRaised("change_role", "OrganizationUserNotFound",
                                   current_user, user_id)
            /\ UNCHANGED <<pc, loc>>
       ELSE IF users[CHOOSE u \in target_user : TRUE].role = "owner"
       THEN /\ result' = OrgRaised("change_role", "OrganizationUserConflict",
                                   current_user, user_id)
            /\ UNCHANGED <<pc, loc>>
       ELSE /\ pc' = [pc EXCEPT ![p] = "role_commit"]
            /\ loc' = [loc EXCEPT ![p] =
                          [ip |-> client_ip, current_user |-> users[current_user],
                           target_user |-> users[CHOOSE u \in target_user : TRUE],
                           new_role |-> role]]
            /\ UNCHANGED result
    /\ UNCHANGED <<clock, ticks, dbVars, limiter, nextToken, histVars>>

\* change_organization_user_role, its transaction: the role of the row with the
\* target's id is updated, change_user_role audited, all committed.
change_organization_user_role_commit(p) ==
    LET current_user == loc[p].current_user
        target_user == loc[p].target_user
    IN
    /\ pc[p] = "role_commit"
    /\ users' = [u \in DOMAIN users |->
                    IF uuids_equal(users[u].id, target_user.id)
                    THEN [users[u] EXCEPT !.role = loc[p].new_role]
                    ELSE users[u]]
    /\ audit' = Append(audit, AuditRow(current_user.org_id, current_user.id,
                                       "change_user_role", target_user.id, loc[p].ip))
    /\ pc' = [pc EXCEPT ![p] = "idle"]
    /\ loc' = [loc EXCEPT ![p] = Idle]
    /\ result' = [op |-> "change_role", outcome |-> "ok", actor |-> current_user.id,
                  target |-> target_user.id, role |-> loc[p].new_role]
    /\ UNCHANGED <<clock, ticks, mfa, sessions, limiter, nextToken, histVars>>

\* ------------------------------------------------- offboard_organization_user
\* update(Session).where(user_id == target, revoked_at IS NULL).values(revoked_at)
revoke_sessions_of_user_all(rows, user_id, now) ==
    [i \in 1..Len(rows) |->
        IF uuids_equal(rows[i].user_id, user_id)
        THEN [rows[i] EXCEPT !.revoked_at = now]
        ELSE rows[i]]
revoke_sessions_of_user(rows, user_id, now) ==
    [i \in 1..Len(rows) |->
        IF uuids_equal(rows[i].user_id, user_id) /\ rows[i].revoked_at = NoTime
        THEN [rows[i] EXCEPT !.revoked_at = now]
        ELSE rows[i]]

\* offboard_organization_user up to its updates: the clock and the target are
\* read and an owner is refused.
offboard_organization_user_start(p, current_user, user_id, client_ip) ==
    LET current_time == clock
        target_user == get_org_user(users[current_user].org_id, user_id)
    IN
    /\ pc[p] = "idle"
    /\ IF target_user = {}
       THEN /\ result' = OrgRaised("offboard", "OrganizationUserNotFound",
                                   current_user, user_id)
            /\ UNCHANGED <<pc, loc>>
       ELSE IF users[CHOOSE u \in target_user : TRUE].role = "owner"
       THEN /\ result' = OrgRaised("offboard", "OrganizationUserConflict",
                                   current_user, user_id)
            /\ UNCHANGED <<pc, loc>>
       ELSE /\ pc' = [pc EXCEPT ![p] = "offboard_commit"]
            /\ loc' = [loc EXCEPT ![p] =
                          [ip |-> client_ip, current_time |-> current_time,
                           current_user |-> users[current_user],
                           target_user |-> users[CHOOSE u \in target_user : TRUE]]]
            /\ UNCHANGED result
    /\ UNCHANGED <<clock, ticks, dbVars, limiter, nextToken, histVars>>

\* offboard_organization_user, its transaction: the target's row is set to
\* suspended, its unrevoked sessions are revoked at the time read, offboard_user
\* is audited and all is committed.
offboard_organization_user_commit(p) ==
    LET current_user == loc[p].current_user
        target_user == loc[p].target_user
    IN
    /\ pc[p] = "offboard_commit"
    /\ users' = [u \in DOMAIN users |->
                    IF uuids_equal(users[u].id, target_user.id)
                    THEN [users[u] EXCEPT !.status = "suspended"]
                    ELSE users[u]]
    /\ sessions' = revoke_sessions_of_user(sessions, target_user.id, loc[p].current_time)
    /\ audit' = Append(audit, AuditRow(current_user.org_id, current_user.id,
                                       "offboard_user", target_user.id, loc[p].ip))
    /\ pc' = [pc EXCEPT ![p] = "idle"]
    /\ loc' = [loc EXCEPT ![p] = Idle]
    /\ result' = [op |-> "offboard", outcome |-> "ok", actor |-> current_user.id,
                  target |-> target_user.id, at |-> loc[p].current_time]
    /\ UNCHANGED <<clock, ticks, mfa, limiter, nextToken, histVars>>

\* ------------------------------------------------- the login specification
LoginEmails == {[name |-> "alice", plain |-> TRUE], [name |-> "alice", plain |-> FALSE],
                [name |-> "carol", plain |-> TRUE], [name |-> "dave", plain |-> TRUE],
                [name |-> "nobody", plain |-> TRUE]}
LoginVerifiers == {"va", "vc", "bad"}
LimiterDeltas == {1, Seconds(FAILED_ATTEMPTS_WINDOW_SECONDS)}
LoginRoom == Len(sessions) + Cardinality({p \in Procs : pc[p] = "login_commit"}) < MaxLogins
\* Requests come from ip1 without limit, and from any other address while it has
\* fewer than MaxOtherIpFailures failures registered or about to be.
IpRoom(ip) ==
    \/ ip = "ip1"
    \/ streak[ip] + Cardinality({p \in Procs : pc[p] # "idle" /\ loc[p].ip = ip})
            < MaxOtherIpFailures

NextLogin ==
    \/ \E d \in LimiterDeltas : Tick(d)
    \/ \E p \in Procs, ip \in IPs : IpRoom(ip) /\ login_user_start(p, ip)
    \/ \E p \in Procs, e \in LoginEmails, v \in LoginVerifiers :
            LoginRoom /\ login_user_lookup(p, e, v)
    \/ \E p \in Procs : login_user_fail(p)
    \/ \E p \in Procs : login_user_commit(p)

SpecLogin == Init /\ [][NextLogin]_vars

\* ----------------------------------------------- the session specification
\* The credentials of the two active users, one of them enrolled in MFA.
SessionLogins == {<<[name |-> "alice", plain |-> TRUE], "va">>,
                  <<[name |-> "bob", plain |-> TRUE], "vb">>}
SessionDeltas == {1, Days(jwt_refresh_ttl_days)}
RefreshTokens == {TokenUrlsafe(n) : n \in 0..MaxSessions}

NextSession ==
    \/ \E d \in SessionDeltas : Tick(d)
    \/ \E p \in Procs : login_user_start(p, "ip1")
    \/ \E p \in Procs, c \in SessionLogins : login_user_lookup(p, c[1], c[2])
    \/ \E p \in Procs : login_user_commit(p)
    \/ \E p \in Procs, t \in RefreshTokens : refresh_tokens_start(p, t, "ip1")
    \/ \E p \in Procs : refresh_tokens_expire(p)
    \/ \E p \in Procs : refresh_tokens_user(p)
    \/ \E p \in Procs : refresh_tokens_commit(p)

SpecSession == Init /\ [][NextSession]_vars

\* ------------------------------------------------- the token specification
\* Bearer tokens a client can hold: what issue_access_token returned for a user,
\* what issue_mfa_token returned for a user enrolled in MFA, each minted at the
\* epoch or just now, and the same tokens signed by another key, naming another
\* issuer, or lacking one of the required claims.
TokenKinds == {"access", "mfa"}
TokenTampers == {"none", "key", "issuer"} \cup AccessRequired
\* For the MFA validation also: the purpose claim dropped, or set to another
\* purpose under the server's signature.
MfaTokenTampers == TokenTampers \cup {"purpose", "other-purpose"}
MfaTokenUsers == {"u1", "u2"}
TokenDeltas == {1, Minutes(mfa_challenge_ttl_minutes), Minutes(jwt_access_ttl_minutes)}

Minted(kind, u, issued_at) ==
    IF kind = "mfa"
    THEN issue_mfa_token(users[u].id, users[u].org_id, users[u].email, users[u].role, issued_at)
    ELSE issue_access_token(users[u].id, users[u].org_id, users[u].email, users[u].role, issued_at)

Tampered(token, tamper) ==
    CASE tamper = "key" -> [token EXCEPT !.signed_by = "other-key"]
      [] tamper = "issuer" -> [token EXCEPT !.claims.iss = "other-issuer"]
      [] tamper \in MfaRequired ->
            [token EXCEPT !.claims = [c \in DOMAIN token.claims \ {tamper} |-> token.claims[c]]]
      [] tamper = "other-purpose" ->
            [token EXCEPT !.claims = ("purpose" :> "access") @@ token.claims]
      [] OTHER -> token

NextTokens ==
    \/ \E d \in TokenDeltas : Tick(d)
    \/ \E kind \in TokenKinds, u \in UserIds, issued_at \in {0, clock}, tamper \in TokenTampers :
            /\ kind = "mfa" => users[u].mfa_enabled
            /\ get_user_from_access_token(
                    Tampered(Minted(kind, u, issued_at), tamper),
                    [kind |-> kind, user |-> u, issued_at |-> issued_at, tamper |-> tamper])
    \/ \E kind \in TokenKinds, u \in MfaTokenUsers, issued_at \in {0, clock},
          tamper \in MfaTokenTampers :
            /\ kind = "mfa" => users[u].mfa_enabled
            /\ validate_mfa_token_call(
                    Tampered(Minted(kind, u, issued_at), tamper),
                    [kind |-> kind, user |-> u, issued_at |-> issued_at, tamper |-> tamper])

SpecTokens == Init /\ [][NextTokens]_vars

\* --------------------------------------------------- the MFA specification
\* The backup codes tried: code 0, never handed out, and the first MaxCodesTried
\* of the codes enrolment handed out; and a TOTP code for the current time step
\* or for one well past it.
MfaCodes(now) ==
    {BackupCode(k, dashed) : k \in 0..MaxCodesTried, dashed \in BOOLEAN}
        \cup {TotpCode(TotpStep(now)), TotpCode(TotpStep(now) + 2)}
MfaDeltas == {1, Minutes(mfa_challenge_ttl_minutes)}

NextMfa ==
    \/ \E d \in MfaDeltas : Tick(d)
    \/ \E p \in Procs, u \in DOMAIN mfa, issued_at \in {0, clock}, code \in MfaCodes(clock) :
            verify_mfa_and_issue_tokens_start(p,
                issue_mfa_token(users[u].id, users[u].org_id, users[u].email,
                                users[u].role, issued_at),
                code, "ip1")
    \/ \E p \in Procs : verify_mfa_and_issue_tokens_commit(p)

SpecMfa == Init /\ [][NextMfa]_vars

\* ------------------------------------------- the MFA failure specification
\* Challenge and access tokens of a user with a confirmed credential, of one who
\* enrols without confirming and of one with no credential, as issued or with the
\* signature or the purpose claim changed, are presented with a code of the
\* moment, a code of a later time step, a backup code handed out or one that
\* never was, until the challenge tokens expire.
MfaFailureUsers == {"u1", "u2", "u5"}
MfaFailureTampers == {"none", "key", "purpose", "other-purpose"}
MfaFailureCodes(now) ==
    {TotpCode(TotpStep(now)), TotpCode(TotpStep(now) + 2), BackupCode(1, TRUE), BackupCode(0, TRUE)}
MfaFailureDeltas == {1, Minutes(mfa_challenge_ttl_minutes)}
MfaFailureRoom == Len(sessions) + Cardinality({p \in Procs : pc[p] # "idle"}) < MaxLogins

NextMfaFailure ==
    \/ \E d \in MfaFailureDeltas : Tick(d)
    \/ ~users["u1"].mfa_enabled /\ "u1" \notin DOMAIN mfa /\ enroll_totp_mfa("u1")
    \/ \E p \in Procs, kind \in TokenKinds, u \in MfaFailureUsers, issued_at \in {0, clock},
          tamper \in MfaFailureTampers, code \in MfaFailureCodes(clock) :
            /\ MfaFailureRoom
            /\ verify_mfa_and_issue_tokens_start(p,
                    Tampered(Minted(kind, u, issued_at), tamper), code, "ip1")
    \/ \E p \in Procs : verify_mfa_and_issue_tokens_commit(p)

SpecMfaFailure == Init /\ [][NextMfaFailure]_vars

\* ------------------------------------------------ the revocation specification
\* Two active users without MFA log in; each holds the access token issued to it
\* at the epoch, and names any refresh token or session id as the target.
RevokeLogins == {<<[name |-> "alice", plain |-> TRUE], "va">>,
                 <<[name |-> "erin", plain |-> TRUE], "ve">>}
RevokeCallers == {"u1", "u5"}
RevokeDeltas == {1, Minutes(jwt_access_ttl_minutes)}
RevokeRoom ==
    Len(sessions) + Cardinality({p \in Procs : pc[p] \in {"login_lookup", "login_commit"}})
        < MaxRevokeSessions
AuditRoom == Len(audit) + Cardinality({p \in Procs : pc[p] # "idle"}) < MaxAudit

NextRevoke ==
    \/ \E d \in RevokeDeltas : Tick(d)
    \/ \E p \in Procs : RevokeRoom /\ AuditRoom /\ login_user_start(p, "ip1")
    \/ \E p \in Procs, c \in RevokeLogins : login_user_lookup(p, c[1], c[2])
    \/ \E p \in Procs : login_user_commit(p)
    \/ \E p \in Procs, u \in RevokeCallers, t \in 0..MaxRevokeSessions :
            /\ AuditRoom
            /\ revoke_session_by_refresh_token_start(p,
                    issue_access_token(users[u].id, users[u].org_id, users[u].email,
                                       users[u].role, 0),
                    TokenUrlsafe(t), "ip1")
    \/ \E p \in Procs : revoke_session_by_refresh_token_read(p)
    \/ \E p \in Procs : revoke_session_by_refresh_token_commit(p)
    \/ \E p \in Procs, u \in RevokeCallers, id \in 0..MaxRevokeSessions :
            /\ AuditRoom
            /\ revoke_session_by_id_start(p,
                    issue_access_token(users[u].id, users[u].org_id, users[u].email,
                                       users[u].role, 0),
                    id, "ip1")
    \/ \E p \in Procs : revoke_session_by_id_read(p)
    \/ \E p \in Procs : revoke_session_by_id_commit(p)

SpecRevoke == Init /\ [][NextRevoke]_vars

\* ---------------------------------------------- the registration specification
\* Registrations of a taken e-mail, of two free ones, each as typed with or
\* without upper case and padding, by tasks that interleave at their awaits;
\* and the hash parameters are asked for, for any of these e-mails, at any time.
RegisterEmails == [name : {"alice", "nobody", "frank"}, plain : BOOLEAN]
RegisterVerifiers == {"va", "vn"}

NextRegister ==
    \/ \E p \in Procs, email \in RegisterEmails, auth_verifier \in RegisterVerifiers :
           register_user_start(p, email, auth_verifier)
    \/ \E p \in Procs : register_user_commit(p)
    \/ \E p \in Procs : register_user_rollback(p)
    \/ \E email \in RegisterEmails : preauth(email)

SpecRegister == Init /\ [][NextRegister]_vars

\* ------------------------------------------------ the invitation specification
\* An administrator invites, invitations issued at the start or just now are
\* presented with registrations, taken or not, and time passes up to the expiry
\* of the first invitation and beyond it.
InviteEmails == {[name |-> "frank", plain |-> FALSE], [name |-> "alice", plain |-> TRUE]}
InviteDeltas == {1, Days(invitation_token_ttl_days) - 1}
InvitationTokens ==
    {issue_invitation_token(u, issued_at) :
        u \in DOMAIN users \cup {uuid4(0)}, issued_at \in {0, clock}}
Invites == Cardinality(DOMAIN users \ UserIds)

NextInvite ==
    \/ \E d \in InviteDeltas : Tick(d)
    \/ \E email \in InviteEmails :
           Invites < MaxInvites /\ Len(audit) < MaxAudit
               /\ \E p \in Procs : invite_user(p, "u2", email, "member", "ip1")
    \/ \E p \in Procs : invite_user_send(p)
    \/ \E auth_verifier \in RegisterVerifiers, invitation_token \in InvitationTokens :
           Len(audit) < MaxAudit
               /\ register_user_with_invitation([name |-> "dave", plain |-> TRUE],
                                                auth_verifier, invitation_token, "ip1")

SpecInvite == Init /\ [][NextInvite]_vars

\* ------------------------------------------------- the enrolment specification
\* Active users enrol while their flag is off and confirm, whatever their
\* credential, with the TOTP code of the moment, a code of a time step well
\* ahead, or a backup code; time passes by a tick or by a TOTP period.
EnrollCallers == {u \in DOMAIN users : users[u].status = "active"}
EnrollCodes(now) ==
    {TotpCode(TotpStep(now)), TotpCode(TotpStep(now) + 2), BackupCode(1, TRUE)}
EnrollDeltas == {1, Seconds(TOTP_PERIOD_SECONDS)}

NextEnroll ==
    \/ \E d \in EnrollDeltas : Tick(d)
    \/ \E u \in EnrollCallers : ~users[u].mfa_enabled /\ enroll_totp_mfa(u)
    \/ \E u \in EnrollCallers, code \in EnrollCodes(clock) :
           Len(audit) < MaxAudit /\ confirm_totp_mfa(u, code, "ip1")

SpecEnroll == Init /\ [][NextEnroll]_vars

\* ------------------------------------------------------- the role specification
\* Administrators change the roles of a member and of the owner, and routes of
\* every required role are called with the access tokens a member and a suspended
\* user were issued at the start, under the roles they had then, until the tokens
\* expire.
RoleTargets == {"u1", "u5"}
NewRoles == {"viewer", "admin"}
RoleCallers == {"u1", "u3"}
RoleDeltas == {1, Minutes(jwt_access_ttl_minutes)}
RoleAuditRoom == Len(audit) + Cardinality({p \in Procs : pc[p] # "idle"}) < MaxAudit

NextRole ==
    \/ \E d \in RoleDeltas : Tick(d)
    \/ \E p \in Procs, current_user \in require_admin, user_id \in RoleTargets,
          role \in NewRoles :
           RoleAuditRoom /\
               change_organization_user_role_start(p, current_user, user_id, role, "ip1")
    \/ \E p \in Procs : change_organization_user_role_commit(p)
    \/ \E required_role \in UserRole, u \in RoleCallers :
           require_role(required_role,
                        issue_access_token(InitialUsers[u].id, InitialUsers[u].org_id,
                                           InitialUsers[u].email, InitialUsers[u].role, 0))

SpecRole == Init /\ [][NextRole]_vars

\* -------------------------------------------------- the offboarding specification
\* A member and the owner log in while they are active; an administrator offboards
\* the member, the owner or a user that does not exist, again and again, while
\* time passes.
OffboardLogins == {<<"u1", [name |-> "alice", plain |-> TRUE], "va">>,
                   <<"u5", [name |-> "erin", plain |-> TRUE], "ve">>}
OffboardTargets == {"u1", "u5", uuid4(0)}
OffboardDeltas == {1}

NextOffboard ==
    \/ \E d \in OffboardDeltas : Tick(d)
    \/ \E p \in Procs : RevokeRoom /\ AuditRoom /\ login_user_start(p, "ip1")
    \/ \E p \in Procs, c \in OffboardLogins :
           users[c[1]].status = "active" /\ login_user_lookup(p, c[2], c[3])
    \/ \E p \in Procs : login_user_commit(p)
    \/ \E p \in Procs, user_id \in OffboardTargets :
           AuditRoom /\ offboard_organization_user_start(p, "u2", user_id, "ip2")
    \/ \E p \in Procs : offboard_organization_user_commit(p)

SpecOffboard == Init /\ [][NextOffboard]_vars

\* ------------------------------------------------- the lifecycle specification
\* One member logs in, refreshes and logs out with the refresh tokens handed out
\* so far, revokes sessions by id, and is offboarded by an administrator, the calls interleaving at
\* their awaits while time passes, by less than the life of a session.
LifecycleLogins == {<<"u1", [name |-> "alice", plain |-> TRUE], "va">>}
LifecycleTokens == {TokenUrlsafe(n) : n \in 1..MaxRevokeSessions}
LifecycleDeltas == {1}
\* The access tokens the member holds: the one issued at the start, and one
\* issued for an address the member no longer has.
LifecycleAccessTokens ==
    {issue_access_token(InitialUsers["u1"].id, InitialUsers["u1"].org_id, email,
                        InitialUsers["u1"].role, 0) :
        email \in {InitialUsers["u1"].email, [name |-> "alice", plain |-> FALSE]}}
LifecycleMinted == [kind |-> "access", user |-> "u1", issued_at |-> 0, tamper |-> "none"]
LifecycleRoom ==
    Len(sessions) + Cardinality({p \in Procs : pc[p] \in {"login_lookup", "login_commit",
                                     "refresh_expire", "refresh_user", "refresh_commit"}})
        <= MaxRevokeSessions

NextLifecycle ==
    \/ \E d \in LifecycleDeltas : Tick(d)
    \/ \E p \in Procs : LifecycleRoom /\ AuditRoom /\ login_user_start(p, "ip1")
    \/ \E p \in Procs, c \in LifecycleLogins :
           users[c[1]].status = "active" /\ login_user_lookup(p, c[2], c[3])
    \/ \E p \in Procs : login_user_commit(p)
    \/ \E p \in Procs, t \in LifecycleTokens :
           LifecycleRoom /\ AuditRoom /\ refresh_tokens_start(p, t, "ip1")
    \/ \E p \in Procs : refresh_tokens_user(p)
    \/ \E p \in Procs : refresh_tokens_commit(p)
    \/ \E p \in Procs : refresh_tokens_cancel(p)
    \/ \E access_token \in LifecycleAccessTokens :
           get_user_from_access_token(access_token, LifecycleMinted)
    \/ \E p \in Procs, t \in LifecycleTokens, access_token \in LifecycleAccessTokens :
           /\ AuditRoom
           /\ revoke_session_by_refresh_token_start(p, access_token, t, "ip1")
    \/ \E p \in Procs : revoke_session_by_refresh_token_read(p)
    \/ \E p \in Procs : revoke_session_by_refresh_token_commit(p)
    \/ \E p \in Procs, id \in 1..MaxRevokeSessions, access_token \in LifecycleAccessTokens :
           /\ AuditRoom
           /\ revoke_session_by_id_start(p, access_token, id, "ip1")
    \/ \E p \in Procs : revoke_session_by_id_read(p)
    \/ \E p \in Procs : revoke_session_by_id_commit(p)
    \/ \E p \in Procs :
           AuditRoom /\ offboard_organization_user_start(p, "u2", "u1", "ip2")
    \/ \E p \in Procs : offboard_organization_user_commit(p)

SpecLifecycle == Init /\ [][NextLifecycle]_vars

\* ----------------------------------------------- the padding specification
\* Logins from one address, right and wrong, whose lookup and verification take
\* less than the floor of the failure response, just the floor, or more.
PaddingLogins == {<<[name |-> "alice", plain |-> TRUE], "va">>,
                  <<[name |-> "alice", plain |-> TRUE], "bad">>,
                  <<[name |-> "carol", plain |-> TRUE], "vc">>,
                  <<[name |-> "nobody", plain |-> TRUE], "va">>}
ElapsedMillis == {0, MIN_FAILED_LOGIN_RESPONSE_MILLIS - 1, MIN_FAILED_LOGIN_RESPONSE_MILLIS,
                  MIN_FAILED_LOGIN_RESPONSE_MILLIS + 1, 2 * MIN_FAILED_LOGIN_RESPONSE_MILLIS}
PaddingDeltas == {1}

NextPadding ==
    \/ \E d \in PaddingDeltas : Tick(d)
    \/ \E p \in Procs : login_user_start(p, "ip1")
    \/ \E p \in Procs, c \in PaddingLogins : LoginRoom /\ login_user_lookup(p, c[1], c[2])
    \/ \E p \in Procs, elapsed \in ElapsedMillis : login_user_fail_after(p, elapsed)
    \/ \E p \in Procs : login_user_commit(p)

SpecPadding == Init /\ [][NextPadding]_vars

\* ------------------------------------------------------------ the claims
LoginRaised == result.op = "login" /\ result.outcome # "ok"
LoginRejected == LoginRaised /\ result.stage = "verify"
LoginRefused == LoginRaised /\ result.stage = "entry"

\* C5: counting the failures of one address that lie in the window and follow its
\* last successful login, failures 1 to 5 raise InvalidCredentials, failure 6 and
\* later raise TooManyAttempts, and an attempt that starts after them is refused
\* with TooManyAttempts.
C5_Numbered ==
    /\ LoginRejected =>
          /\ result.prior + 1 <= MAX_FAILED_ATTEMPTS => result.outcome = "InvalidCredentials"
          /\ result.prior + 1 > MAX_FAILED_ATTEMPTS => result.outcome = "TooManyAttempts"
    /\ LoginRefused =>
          /\ result.prior > MAX_FAILED_ATTEMPTS
          /\ result.outcome = "TooManyAttempts"
C5_Admission ==
    \A p \in Procs :
        (pc[p] = "idle" /\ pc'[p] = "login_lookup")
            => FailuresInWindow(loc'[p].ip, clock) <= MAX_FAILED_ATTEMPTS
\* C5: the outcome follows the failure's number in every state, and no attempt is
\* admitted past the entry check with more than five failures in the window.
C5_FailureNumbering == [](C5_Numbered) /\ [][C5_Admission]_vars
C5_Witness == LoginRefused /\ result.prior > MAX_FAILED_ATTEMPTS /\ ticks > 0

\* C6: a successful login empties the address's history, also after six failures
\* in a row, and the failures that follow it are counted from one again: the first
\* five raise InvalidCredentials.
C6_Counted ==
    (LoginRejected /\ streak[result.ip] \in 1..MAX_FAILED_ATTEMPTS)
        => result.outcome = "InvalidCredentials"
C6_Cleared ==
    \A p \in Procs :
        (pc[p] = "login_lookup" /\ pc'[p] = "login_commit")
            => /\ limiter'[loc[p].ip] = <<>>
               /\ ~is_rate_limited(limiter', loc[p].ip, clock').limited
\* C6: failures after a reset are counted from one, and every successful login
\* leaves the address with an empty history and not rate-limited.
C6_ResetRestartsCount == [](C6_Counted) /\ [][C6_Cleared]_vars
C6_Witness ==
    /\ LoginRejected
    /\ hadSix[result.ip]
    /\ streak[result.ip] = 1
    /\ result.outcome = "InvalidCredentials"

\* C7: a login that fails after the entry check fails the same way whether the
\* e-mail is unknown, the verifier wrong or the user not active: the error is a
\* function of the address's failure count alone, one verification was made, one
\* failure was registered, and no token, session row or audit row comes of it.
C7_SameAnswer ==
    LoginRejected =>
        /\ result.outcome = IF result.prior + 1 > MAX_FAILED_ATTEMPTS
                            THEN "TooManyAttempts" ELSE "InvalidCredentials"
        /\ result.verifies = 1
        /\ result.registered = 1
        /\ DOMAIN result \cap {"access_token", "refresh_token", "mfa_token"} = {}
C7_NoTrace ==
    \A p \in Procs :
        (pc[p] \in {"login_lookup", "login_fail"} /\ pc'[p] \in {"login_fail", "idle"} /\ pc'[p] # pc[p])
            => sessions' = sessions /\ audit' = audit
\* C7: the three failing cases give the same answer and leave no session or
\* audit row.
C7_UniformFailure == [](C7_SameAnswer) /\ [][C7_NoTrace]_vars
C7_Witness ==
    /\ LoginRejected /\ result.case = "missing"
    /\ \E p \in Procs : pc[p] = "login_fail" /\ loc[p].case = "inactive"
    /\ \E p \in Procs : pc[p] = "login_fail" /\ loc[p].case = "wrong"

\* C8: a login with the e-mail and verifier of an active user without MFA, once
\* past the entry check, succeeds; its access token validates to the user's id,
\* organisation, e-mail and role, and it inserts exactly one session row, unrevoked,
\* owned by the user, holding the SHA-256 digest of the refresh token returned and
\* never the token.
MatchesPlainUser(email, auth_verifier) ==
    \E u \in DOMAIN users :
        /\ users[u].email = NormalizeEmail(email)
        /\ HasherVerify(users[u].auth_verifier_hash, auth_verifier)
        /\ users[u].status = "active"
        /\ ~users[u].mfa_enabled
C8_Accepted ==
    \A p \in Procs :
        (pc[p] = "login_lookup" /\ pc'[p] = "login_fail") =>
            \A e \in Emails, v \in Verifiers :
                MatchesPlainUser(e, v) => ~login_user_lookup(p, e, v)
C8_Issued ==
    \A p \in Procs :
        (pc[p] = "login_commit" /\ ~loc[p].user.mfa_enabled /\ pc'[p] # "login_commit") =>
            LET user == users[loc[p].user.id]
                \* validated as of the instant login read the clock to issue it
                claims == validate_access_token(result'.access_token, loc[p].current_time)
                rows == {i \in 1..Len(sessions') :
                            sessions'[i].refresh_token_hash = Sha256(result'.refresh_token)}
            IN  /\ result'.op = "login" /\ result'.outcome = "ok"
                /\ claims.ok
                /\ claims.payload.sub = user.id
                /\ claims.payload.org_id = user.org_id
                /\ claims.payload.email = user.email
                /\ claims.payload.role = user.role
                /\ Len(sessions') = Len(sessions) + 1
                /\ SubSeq(sessions', 1, Len(sessions)) = sessions
                /\ rows = {Len(sessions')}
                /\ sessions'[Len(sessions')].user_id = user.id
                /\ sessions'[Len(sessions')].revoked_at = NoTime
                /\ \A i \in 1..Len(sessions') :
                        sessions'[i].refresh_token_hash # result'.refresh_token
\* C8: matching credentials are never rejected after the entry check, and the
\* login that commits issues the token pair and the one session row.
C8_LoginIssuesSession == [][C8_Accepted /\ C8_Issued]_vars
C8_Witness ==
    /\ result.op = "login" /\ result.outcome = "ok"
    /\ ~result.user.mfa_enabled
    /\ \E i \in 1..Len(sessions) :
            sessions[i].refresh_token_hash = Sha256(result.refresh_token)

\* ------------------------------------------------------------------------
\* C1: of two concurrent refresh calls presenting the same valid refresh token at
\* most one succeeds and at most one successor Session row is created: no token
\* value is ever redeemed more than once.
C1_SingleRedemption ==
    \A t \in DOMAIN redeemed : redeemed[t] <= 1

\* ------------------------------------------------------------------------
\* C2: once a refresh with token T has succeeded, a later refresh call presenting
\* T is not let past the session read: it ends at once with InvalidRefreshToken
\* and writes no Session row; and the token a successful refresh returns differs
\* from T and has exactly one unrevoked, unexpired Session row of an active user.
C2_ReplayRefused ==
    /\ \A p \in Procs :
            (pc[p] = "idle" /\ pc'[p] \in {"refresh_user", "refresh_expire"})
                => redeemed[loc'[p].token.token] = 0
    \* a call that ends within its first step leaves every pc as it was
    /\ (pc' = pc /\ result' # result /\ result'.op = "refresh"
                /\ redeemed[result'.token.token] > 0)
            => /\ result' = RefreshRaised(result'.token)
               /\ sessions' = sessions

C2_SuccessorRedeemable ==
    \A p \in Procs :
        (pc[p] = "refresh_commit" /\ pc'[p] = "idle") =>
            LET rows == {i \in 1..Len(sessions') :
                            /\ sessions'[i].refresh_token_hash = Sha256(result'.refresh_token)
                            /\ sessions'[i].revoked_at = NoTime}
            IN  /\ result'.outcome = "ok"
                /\ result'.refresh_token # loc[p].token
                /\ redeemed'[result'.refresh_token.token] = 0
                /\ Cardinality(rows) = 1
                /\ \A i \in rows :
                        /\ ~is_expired(sessions'[i].expires_at, loc[p].current_time)
                        /\ users[sessions'[i].user_id].status = "active"
                        /\ i > Len(sessions)

\* C2: a redeemed refresh token is refused from then on, and its successor is
\* redeemable.
C2_RotationRetiresToken == [][C2_ReplayRefused /\ C2_SuccessorRedeemable]_vars

\* The replay of a redeemed token was refused after the token that replaced it
\* had been redeemed in its turn.
C2_Witness ==
    /\ result.op = "refresh"
    /\ result.outcome = "InvalidRefreshToken"
    /\ redeemed[result.token.token] = 1
    /\ \E t \in DOMAIN redeemed : t # result.token.token /\ redeemed[t] = 1

\* ------------------------------------------------------------------------
\* C3: no token that issue_mfa_token produced resolves to a user when it is
\* presented as a bearer access token, however well signed, fresh and issued.
C3_ChallengeTokenUnauthorized ==
    (result.op = "authorize" /\ result.minted.kind = "mfa")
        => /\ ~validate_access_token(result.token, clock).ok
           /\ result.outcome = "InvalidAccessToken"
           /\ result.principal = None

\* ------------------------------------------------------------------------
\* C4: a login that passes the verifier check for an active user with
\* mfa_enabled returns an MFA challenge token and no access or refresh token,
\* and creates no Session row.
C4_Challenge ==
    \A p \in Procs :
        (pc[p] = "login_commit" /\ pc'[p] = "idle" /\ loc[p].user.mfa_enabled) =>
            /\ "mfa_token" \in DOMAIN result'
            /\ "access_token" \notin DOMAIN result'
            /\ "refresh_token" \notin DOMAIN result'
            /\ sessions' = sessions

\* C4: every login of an MFA-enabled user answers with the challenge alone.
C4_MfaLoginIssuesNoSession == [][C4_Challenge]_vars

\* ------------------------------------------------------------------------
\* C9: of the MFA verify calls that present the same unused backup code, also
\* concurrently, exactly one succeeds with one new Session, every other one
\* fails with InvalidMfaCode and writes nothing; the hash leaves the stored set
\* once: a code pays for at most one verification, and it is in the stored set
\* exactly while it has paid for none.
C9_SpentOnce ==
    \A k \in 1..BACKUP_CODE_COUNT :
        /\ spent[k] <= 1
        /\ \A u \in DOMAIN mfa :
                (spent[k] = 0) <=> (BackupCodeHash(BackupCode(k, TRUE)) \in mfa[u].backup_code_hashes)

C9_FirstWins ==
    \A p \in Procs :
        (/\ pc[p] = "mfa_verify" /\ pc'[p] = "idle"
         /\ loc[p].code.kind = "backup" /\ loc[p].code.value > 0) =>
            LET k == loc[p].code.value
                u == loc[p].user.id
            IN  IF spent[k] = 0
                THEN /\ result'.outcome = "ok"
                     /\ Len(sessions') = Len(sessions) + 1
                     /\ sessions'[Len(sessions')].user_id = u
                     /\ spent'[k] = 1
                     /\ mfa'[u].backup_code_hashes =
                            mfa[u].backup_code_hashes \ {BackupCodeHash(BackupCode(k, TRUE))}
                ELSE /\ result' = MfaRaised("InvalidMfaCode", loc[p].code, result'.raced)
                     /\ UNCHANGED <<sessions, mfa, audit, spent>>

\* C9: a backup code pays for one verification, whichever call commits first.
C9_BackupCodeRace == [](C9_SpentOnce) /\ [][C9_FirstWins]_vars

\* A call that had read the credential while the code was still stored lost
\* the race for it.
C9_Witness ==
    /\ result.op = "mfa_verify"
    /\ result.outcome = "InvalidMfaCode"
    /\ result.code.kind = "backup"
    /\ result.raced
    /\ spent[result.code.value] = 1

\* ------------------------------------------------------------------------
\* C10: a backup code is single-use. A verify call that starts, with a valid
\* challenge token, after the code paid for a verification ends with
\* InvalidMfaCode; the stored set of hashes only shrinks, by the one hash used;
\* and every code still stored is accepted when it is presented.
C10_ReplayRefused ==
    \A p \in Procs :
        (/\ pc[p] = "mfa_verify" /\ pc'[p] = "idle"
         /\ loc[p].code.kind = "backup"
         /\ BackupCodeHash(loc[p].code) \notin loc[p].credential.backup_code_hashes) =>
            /\ result'.outcome = "InvalidMfaCode"
            /\ sessions' = sessions

C10_OnlyShrinks ==
    \A u \in DOMAIN mfa :
        /\ u \in DOMAIN mfa'
        /\ mfa'[u].backup_code_hashes \subseteq mfa[u].backup_code_hashes
        /\ Cardinality(mfa[u].backup_code_hashes \ mfa'[u].backup_code_hashes) <= 1
        /\ Cardinality(mfa'[u].backup_code_hashes)
                = BACKUP_CODE_COUNT
                    - Cardinality({k \in 1..BACKUP_CODE_COUNT : spent'[k] > 0})

C10_OthersUsable ==
    \A p \in Procs :
        (/\ pc[p] = "mfa_verify" /\ pc'[p] = "idle"
         /\ loc[p].code.kind = "backup"
         /\ BackupCodeHash(loc[p].code) \in mfa[loc[p].user.id].backup_code_hashes) =>
            /\ result'.outcome = "ok"
            /\ result'.code = loc[p].code

\* C10: replay refused, stored set only shrinking, remaining codes accepted.
C10_BackupCodeSingleUse ==
    [][C10_ReplayRefused /\ C10_OnlyShrinks /\ C10_OthersUsable]_vars

\* The replay of a used code, begun after its use, was refused although another
\* code had been accepted in between.
C10_Witness ==
    /\ result.op = "mfa_verify"
    /\ result.outcome = "InvalidMfaCode"
    /\ result.code.kind = "backup"
    /\ ~result.raced
    /\ spent[result.code.value] = 1
    /\ \E k \in 1..BACKUP_CODE_COUNT : k # result.code.value /\ spent[k] = 1

\* ------------------------------------------------------------------------
\* The rows a revoke call names: by the digest of its refresh token, or by id.
RevokeTargets(p) ==
    IF pc[p] = "logout_read"
    THEN {i \in 1..Len(sessions) : sessions[i].refresh_token_hash = Sha256(loc[p].target)}
    ELSE session_by_id(loc[p].target)

ForeignTarget(p) ==
    /\ pc[p] \in {"logout_read", "revoke_read"}
    /\ RevokeTargets(p) # {}
    /\ \A i \in RevokeTargets(p) : sessions[i].user_id # loc[p].current_user.id

C11_ForeignRefused ==
    \A p \in Procs :
        (ForeignTarget(p) /\ pc'[p] # pc[p]) =>
            /\ pc'[p] = "idle"
            /\ result' = RevokeRaised(IF pc[p] = "logout_read" THEN "logout" ELSE "session_revoke",
                                      "SessionNotFound", loc[p].current_user.id, loc[p].target)
            /\ sessions' = sessions
            /\ audit' = audit

C11_OnlyOwnerRevokes ==
    \A i \in 1..Len(sessions) :
        (sessions[i].revoked_at = NoTime /\ sessions'[i].revoked_at # NoTime)
            => /\ result'.op \in {"logout", "session_revoke"}
               /\ result'.outcome = "ok"
               /\ result'.actor = sessions[i].user_id

\* C11: logout and revoke-by-id called by a user on a session of another user end
\* with SessionNotFound, the error of a missing session, and write neither the
\* session nor the audit log; a session is only ever revoked by its owner.
C11_ForeignSessionUntouched == [][C11_ForeignRefused /\ C11_OnlyOwnerRevokes]_vars

\* A revoke by id of another user's session was refused, the session is still
\* unrevoked, and a logout naming another user's refresh token is under way.
C11_Witness ==
    /\ result.op = "session_revoke" /\ result.outcome = "SessionNotFound"
    /\ \E i \in 1..Len(sessions) :
            /\ sessions[i].id = result.target
            /\ sessions[i].user_id # result.actor
            /\ sessions[i].revoked_at = NoTime
    /\ \E p \in Procs : pc[p] = "logout_read" /\ ForeignTarget(p)

\* ------------------------------------------------------------------------
\* The caller's own session, already revoked when the call reads it.
OwnRevokedTarget(p) ==
    /\ pc[p] \in {"logout_read", "revoke_read"}
    /\ RevokeTargets(p) # {}
    /\ \A i \in RevokeTargets(p) :
            /\ sessions[i].user_id = loc[p].current_user.id
            /\ sessions[i].revoked_at # NoTime

\* C12 as stated: a second revoke of the owner's session, by refresh token or by
\* id, is observable as SessionNotFound and leaves the row as it is.
C12_SecondCallNotFound ==
    [][\A p \in Procs :
        (OwnRevokedTarget(p) /\ pc'[p] # pc[p]) =>
            /\ pc'[p] = "idle"
            /\ result'.outcome = "SessionNotFound"
            /\ sessions' = sessions]_vars

C12_FirstSets ==
    \A p \in Procs :
        /\ (pc[p] = "logout_commit" /\ pc'[p] = "idle") =>
                /\ result'.outcome = "ok"
                /\ sessions'[loc[p].auth_session.id].revoked_at = loc[p].current_time
        /\ (pc[p] = "revoke_commit" /\ pc'[p] = "idle"
                /\ loc[p].target_session.revoked_at = NoTime) =>
                /\ result'.outcome = "ok"
                /\ sessions'[loc[p].target_session.id].revoked_at = loc[p].current_time

C12_SecondLeaves ==
    \A p \in Procs :
        /\ (OwnRevokedTarget(p) /\ pc[p] = "logout_read" /\ pc'[p] # pc[p]) =>
                /\ pc'[p] = "idle"
                /\ result'.outcome = "SessionNotFound"
                /\ sessions' = sessions /\ audit' = audit
        /\ (OwnRevokedTarget(p) /\ pc[p] = "revoke_read" /\ pc'[p] # pc[p]) =>
                /\ pc'[p] = "revoke_commit"
                /\ loc'[p].target_session.revoked_at # NoTime
        /\ (pc[p] = "revoke_commit" /\ pc'[p] = "idle"
                /\ loc[p].target_session.revoked_at # NoTime) =>
                /\ result'.outcome = "ok"
                /\ sessions' = sessions
                /\ audit' = Append(audit, AuditRow(loc[p].current_user.org_id,
                                                   loc[p].current_user.id, "session_revoke",
                                                   loc[p].target_session.id, loc[p].ip))

\* C12, amended: the first revoke sets revoked_at; a second one leaves the row as
\* it is and raises nothing unexpected: by refresh token it ends with
\* SessionNotFound and writes nothing, by session id it succeeds again and
\* appends one more session_revoke audit row.
C12_RevokeTwice == [][C12_FirstSets /\ C12_SecondLeaves]_vars

\* A revoke by id succeeded on a session that was revoked at an earlier time.
C12_Witness ==
    /\ result.op = "session_revoke" /\ result.outcome = "ok"
    /\ result.was_revoked
    /\ sessions[result.session_id].revoked_at < clock

\* ------------------------------------------------------------------------
WholeSecond(t) == t % TicksPerSecond = 0

\* C13: an access token issued for a user at a whole second, presented as issued,
\* validates at every instant before its expiry, to the user's id, organisation,
\* e-mail and role, the configured issuer, iat equal to the issue time and exp
\* equal to the expiry that was returned with it.
C13_AccessTokenRoundTrip ==
    (/\ result.op = "authorize"
     /\ result.minted.kind = "access" /\ result.minted.tamper = "none"
     /\ WholeSecond(result.minted.issued_at)
     /\ clock < issue_access_token_expiry(result.minted.issued_at)) =>
        LET user == users[result.minted.user]
            validated == validate_access_token(result.token, clock)
        IN  /\ validated.ok
            /\ validated.payload.sub = user.id
            /\ validated.payload.org_id = user.org_id
            /\ validated.payload.email = user.email
            /\ validated.payload.role = user.role
            /\ validated.payload.iss = jwt_issuer
            /\ validated.payload.iat = result.minted.issued_at
            /\ validated.payload.exp = issue_access_token_expiry(result.minted.issued_at)

\* A token issued at a whole second after the epoch validated some time later.
C13_Witness ==
    /\ result.op = "authorize"
    /\ result.minted.kind = "access" /\ result.minted.tamper = "none"
    /\ result.minted.issued_at > 0 /\ WholeSecond(result.minted.issued_at)
    /\ clock > result.minted.issued_at
    /\ validate_access_token(result.token, clock).ok

\* ------------------------------------------------------------------------
\* C14: a bearer token that is expired at the instant it is presented (its exp at
\* or before now), signed by another key, names another issuer or lacks one of the
\* required claims fails validation, resolves to no user, and is answered 401.
C14_InvalidTokenUnauthenticated ==
    (/\ result.op = "authorize"
     /\ \/ result.minted.tamper # "none"
        \/ FromTimestamp(result.token.claims.exp) <= result.at) =>
        /\ ~validate_access_token(result.token, result.at).ok
        /\ result.outcome = "InvalidAccessToken"
        /\ result.principal = None
        /\ result.status = 401

\* An untouched access token of an active user was refused at the very instant of
\* its expiry.
C14_Witness ==
    /\ result.op = "authorize"
    /\ result.minted.kind = "access" /\ result.minted.tamper = "none"
    /\ users[result.minted.user].status = "active"
    /\ FromTimestamp(result.token.claims.exp) = result.at
    /\ result.status = 401

\* ------------------------------------------------------------------------
RowsWithEmail(rows, email) ==
    {u \in DOMAIN rows : NormalizeEmail(rows[u].email) = NormalizeEmail(email)}
C15_UniqueEmail ==
    \A u, v \in DOMAIN users :
        NormalizeEmail(users[u].email) = NormalizeEmail(users[v].email) => u = v
C15_CommitStep ==
    \A p \in Procs :
        pc[p] = "register_commit" /\ pc'[p] # pc[p] =>
            LET email == loc[p].user.email
            IN  IF RowsWithEmail(users, email) = {}
                THEN /\ result'.op = "register" /\ result'.outcome = "ok"
                     /\ Cardinality(DOMAIN users') = Cardinality(DOMAIN users) + 1
                     /\ \A u \in DOMAIN users : users'[u] = users[u]
                     /\ RowsWithEmail(users', email) = {result'.id}
                     /\ users'[result'.id].status = "active"
                     /\ users'[result'.id].role = "member"
                ELSE /\ users' = users
                     /\ pc'[p] = "register_rollback"
C15_RollbackStep ==
    \A p \in Procs :
        pc[p] = "register_rollback" /\ pc'[p] # pc[p] =>
            /\ result'.op = "register" /\ result'.outcome = "DuplicateEmail"
            /\ users' = users
            /\ Cardinality(RowsWithEmail(users, loc[p].user.email)) = 1
            /\ loc'[p] = Idle

\* C15: of the register calls whose e-mails are equal after trim and lower-casing,
\* run one after another or interleaved, one creates a user and every other one
\* fails with DuplicateEmail after a rollback that leaves no row of its own; at
\* no time do two users share a normalized e-mail.
C15_OneRegistrationPerEmail ==
    []C15_UniqueEmail /\ [][C15_CommitStep /\ C15_RollbackStep]_vars
\* Two calls for one free e-mail, typed differently, were in flight together: one
\* has created the user, the other's commit was refused and is rolled back.
C15_Witness ==
    /\ result.op = "register" /\ result.outcome = "DuplicateEmail"
    /\ result.email.name = "nobody"
    /\ \E u \in DOMAIN users \ UserIds :
           /\ users[u].email = result.email
           /\ users[u].auth_verifier_hash = Argon2Hash("vn")
    /\ \E p \in Procs : pc[p] = "register_rollback" /\ loc[p].user.email.name = "frank"

\* ------------------------------------------------------------------------
Redeemable(invitation_token, now) ==
    {u \in DOMAIN users :
        /\ users[u].invitation_token_hash # NullHash
        /\ users[u].invitation_token_hash = Sha256(invitation_token)
        /\ users[u].invitation_expires_at > now}
AcceptedInvites(u) ==
    {i \in 1..Len(audit) : audit[i].action = "accept_invite" /\ audit[i].target_id = u}
C16_AcceptStep ==
    (result'.op = "accept" /\ (result' # result \/ audit' # audit) /\ pc' = pc) =>
        LET open == Redeemable(result'.token, clock)
        IN  IF open # {}
            THEN \E u \in open :
                    /\ open = {u}
                    /\ users[u].status = "invited"
                    /\ result'.outcome = "ok"
                    /\ users' = [users EXCEPT ![u] =
                                    [@ EXCEPT !.status = "active",
                                              !.auth_verifier_hash =
                                                  Argon2Hash(result'.auth_verifier),
                                              !.invitation_token_hash = NullHash,
                                              !.invitation_expires_at = NoTime]]
                    /\ Len(audit') = Len(audit) + 1
                    /\ SubSeq(audit', 1, Len(audit)) = audit
                    /\ audit'[Len(audit')].action = "accept_invite"
                    /\ audit'[Len(audit')].target_id = u
            ELSE /\ result'.outcome = "InvitationExpiredOrConsumed"
                 /\ result'.status = 410
                 /\ users' = users
                 /\ audit' = audit
C16_RedeemedOnce == \A u \in DOMAIN users : Cardinality(AcceptedInvites(u)) <= 1

\* C16: an invitation is redeemed at most once and only before its expiry. A
\* register whose invitation token has the SHA-256 digest of an unexpired,
\* unconsumed invitation activates the invited user (status active, the new
\* verifier hash, digest and expiry of the invitation cleared) and audits
\* accept_invite; a register that presents an expired or consumed token fails
\* with InvitationExpiredOrConsumed (410) and changes no user.
C16_InvitationRedeemedOnce == []C16_RedeemedOnce /\ [][C16_AcceptStep]_vars
\* The invitation of the invited user was redeemed, and the same token, presented
\* again before the expiry it had, was answered with Gone.
C16_Witness ==
    /\ AcceptedInvites("u4") # {}
    /\ users["u4"].status = "active"
    /\ result.op = "accept" /\ result.status = 410
    /\ result.token = issue_invitation_token("u4", 0)
    /\ result.at < issue_invitation_token_expiry(0)
    /\ result.at > 0

\* ------------------------------------------------------------------------
MfaEnableRows(rows, u) ==
    {i \in 1..Len(rows) : rows[i].action = "mfa_enable" /\ rows[i].target_id = u}
C17_FlagOnlyByConfirm ==
    \A u \in DOMAIN users :
        users'[u].mfa_enabled # users[u].mfa_enabled =>
            /\ users'[u].mfa_enabled
            /\ result'.op = "confirm" /\ result'.user = u /\ result'.outcome = "ok"
            /\ result'.code.kind = "totp"
            /\ result'.code.value \in (TotpStep(clock) - 1)..(TotpStep(clock) + 1)
            /\ u \in DOMAIN mfa /\ mfa[u].confirmed_at = NoTime
C17_EnrollStep ==
    result'.op = "enroll" /\ (result' # result \/ mfa' # mfa) =>
        LET u == result'.user
        IN  /\ Cardinality(result'.backup_codes) = BACKUP_CODE_COUNT
            /\ mfa'[u].backup_code_hashes =
                   {BackupCodeHash(code) : code \in result'.backup_codes}
            /\ Cardinality(mfa'[u].backup_code_hashes) = BACKUP_CODE_COUNT
            /\ mfa'[u].backup_code_hashes \cap result'.backup_codes = {}
            /\ mfa'[u].confirmed_at = NoTime
            /\ users' = users /\ ~users[u].mfa_enabled
            /\ audit' = audit
C17_ConfirmStep ==
    result'.op = "confirm" /\ (result' # result \/ audit' # audit) =>
        LET u == result'.user
            pending == u \in DOMAIN mfa /\ mfa[u].confirmed_at = NoTime
            good == /\ result'.code.kind = "totp"
                    /\ result'.code.value \in (TotpStep(clock) - 1)..(TotpStep(clock) + 1)
        IN  /\ result'.outcome =
                   IF ~pending THEN "MfaNotEnrolled"
                   ELSE IF ~good THEN "InvalidMfaCode" ELSE "ok"
            /\ IF result'.outcome = "ok"
               THEN /\ mfa'[u].confirmed_at = clock
                    /\ users'[u].mfa_enabled
                    /\ Len(audit') = Len(audit) + 1
                    /\ SubSeq(audit', 1, Len(audit)) = audit
                    /\ MfaEnableRows(audit', u) = MfaEnableRows(audit, u) \cup {Len(audit')}
               ELSE /\ users' = users /\ mfa' = mfa /\ audit' = audit

\* C17: a user's mfa_enabled flag becomes true only by a confirm with a valid
\* current TOTP code on a pending credential. Enrolment returns exactly 8 backup
\* codes, stores their hashes and none of the codes, and leaves the flag as it
\* was, off; a successful confirm stamps the credential, sets the flag and
\* appends one mfa_enable audit row; a confirm with a wrong code is InvalidMfaCode
\* and one without a pending credential MfaNotEnrolled, and both leave the flag.
C17_MfaEnabledByConfirm ==
    [][C17_FlagOnlyByConfirm /\ C17_EnrollStep /\ C17_ConfirmStep]_vars
\* A user enrolled, failed a confirm, then confirmed: the flag is on, the
\* credential stamped past the start, one mfa_enable row; and another user's
\* confirm without a credential was refused.
C17_Witness ==
    /\ users["u1"].mfa_enabled
    /\ mfa["u1"].confirmed_at > 0
    /\ Cardinality(MfaEnableRows(audit, "u1")) = 1
    /\ result.op = "confirm" /\ result.user = "u5" /\ result.outcome = "MfaNotEnrolled"

\* ------------------------------------------------------------------------
C18_PreauthStep ==
    result'.op = "preauth" /\ result' # result =>
        /\ result'.status = 200
        /\ result'.argon2_params =
               [type |-> "argon2id", memory_kib |-> 65536, iterations |-> 3,
                parallelism |-> 4, hash_len |-> 32, salt_len |-> 16]
        /\ UNCHANGED <<users, mfa, sessions, audit, limiter, nextToken, pc, loc, clock>>

\* C18: preauth answers every e-mail, of a user or of nobody, with the same
\* hash parameters (argon2id, 65536 KiB, 3 iterations, parallelism 4, 32-byte
\* hash, 16-byte salt) and changes no state: no limiter entry, no row, no audit
\* event.
C18_PreauthConstant == [][C18_PreauthStep]_vars
\* The parameters were asked for an e-mail no user has, typed with upper case,
\* while a registration of that e-mail was waiting for its commit.
C18_Witness ==
    /\ result.op = "preauth"
    /\ ~result.email.plain
    /\ find_user_by_email(NormalizeEmail(result.email)) = {}
    /\ \E p \in Procs :
           pc[p] = "register_commit" /\ loc[p].user.email = NormalizeEmail(result.email)

\* ------------------------------------------------------------------------
Ranked == <<"viewer", "member", "manager", "admin", "owner">>
Position(role) == CHOOSE i \in 1..Len(Ranked) : Ranked[i] = role
C19_Ranked ==
    \A stored \in UserRole, required \in UserRole :
        role_dependency_status([role |-> stored], required) =
            IF Position(stored) >= Position(required) THEN 200 ELSE 403
C19_RequireRoleStep ==
    result'.op = "require_role" /\ result' # result =>
        LET resolved == user_from_access_token(result'.token, clock)
        IN  /\ UNCHANGED <<users, sessions, audit>>
            /\ IF resolved = {}
               THEN result'.status = 401 /\ result'.principal = {}
               ELSE \E u \in resolved :
                       /\ resolved = {u}
                       /\ result'.status =
                              IF Position(users[u].role) >= Position(result'.required_role)
                              THEN 200 ELSE 403
                       /\ result'.principal = IF result'.status = 200 THEN {u} ELSE {}

\* C19: with the roles ranked viewer < member < manager < admin < owner,
\* require_role(r) admits an authenticated user exactly when the rank of the
\* role stored for the user is at least the rank of r and answers 403 otherwise,
\* 401 when the token is invalid; the role stored decides, not the role claim of
\* the token.
C19_RequireRoleByStoredRank == []C19_Ranked /\ [][C19_RequireRoleStep]_vars
\* A member was made administrator; the token issued while a member, which still
\* says member, passed a route that requires an administrator.
C19_Witness ==
    /\ result.op = "require_role" /\ result.status = 200
    /\ result.required_role = "admin"
    /\ validate_access_token(result.token, result.at).payload.role = "member"
    /\ \E u \in result.principal : users[u].role = "admin"

\* ------------------------------------------------------------------------
C20_CommitStep ==
    \A p \in Procs :
        pc[p] = "offboard_commit" /\ pc'[p] # pc[p] =>
            LET target == loc[p].target_user.id
            IN  /\ users[target].role # "owner"
                /\ users' = [users EXCEPT ![target].status = "suspended"]
                /\ Len(sessions') = Len(sessions)
                /\ \A i \in 1..Len(sessions) :
                       sessions'[i] =
                           IF sessions[i].user_id = target /\ sessions[i].revoked_at = NoTime
                           THEN [sessions[i] EXCEPT !.revoked_at = loc[p].current_time]
                           ELSE sessions[i]
                /\ \A i \in 1..Len(sessions') :
                       sessions'[i].user_id = target => sessions'[i].revoked_at # NoTime
                /\ Len(audit') = Len(audit) + 1
                /\ SubSeq(audit', 1, Len(audit)) = audit
                /\ audit'[Len(audit')].action = "offboard_user"
                /\ audit'[Len(audit')].target_id = target
                /\ result'.op = "offboard" /\ result'.outcome = "ok"
C20_OwnerStep ==
    result'.op = "offboard" /\ result' # result /\ result'.target \in DOMAIN users
        /\ users[result'.target].role = "owner" =>
            /\ result'.outcome = "OrganizationUserConflict"
            /\ UNCHANGED <<users, sessions, audit, mfa, pc>>
C20_OwnerKept == \A u \in DOMAIN users : users[u].role = "owner" => users[u].status = "active"

\* C20: offboarding a user that is no owner sets the user's status to suspended
\* and, in the same commit, sets revoked_at on every session of the user that
\* was unrevoked, leaves the revoked_at of the sessions already revoked, deletes
\* no session row and appends one offboard_user audit row; offboarding an owner
\* fails with a conflict and changes nothing.
C20_Offboard == []C20_OwnerKept /\ [][C20_CommitStep /\ C20_OwnerStep]_vars
\* The member, logged in, was offboarded, and offboarded again later: the session
\* keeps the time at which the first offboarding revoked it.
C20_Witness ==
    /\ result.op = "offboard" /\ result.outcome = "ok" /\ result.target = "u1"
    /\ users["u1"].status = "suspended"
    /\ Cardinality({i \in 1..Len(audit) : audit[i].action = "offboard_user"}) = 2
    /\ \E i \in 1..Len(sessions) :
           /\ sessions[i].user_id = "u1"
           /\ sessions[i].revoked_at # NoTime
           /\ sessions[i].revoked_at < result.at

\* ------------------------------------------------------------------------
HasPurposeMfa(token) ==
    "purpose" \in DOMAIN token.claims /\ token.claims.purpose = "mfa"
C21_NoAccessTokenPasses ==
    \A u \in DOMAIN users, issued_at \in {0, clock} :
        ~validate_mfa_token(issue_access_token(users[u].id, users[u].org_id,
                                               users[u].email, users[u].role, issued_at),
                            clock).ok
C21_Validated ==
    result.op = "validate_mfa" =>
        /\ result.ok => HasPurposeMfa(result.token)
        /\ result.minted.kind = "access" /\ result.minted.tamper # "other-purpose"
               => ~result.ok

\* C21: validate_mfa_token rejects every token whose purpose claim is missing or
\* is not "mfa", and with them every token issue_access_token produced: an access
\* token never passes as an MFA challenge token.
C21_MfaPurposeRequired == C21_NoAccessTokenPasses /\ C21_Validated
\* An access token that validates as an access token at that instant was
\* presented as an MFA challenge token and rejected.
C21_Witness ==
    /\ result.op = "validate_mfa" /\ ~result.ok
    /\ result.minted.kind = "access" /\ result.minted.tamper = "none"
    /\ validate_access_token(result.token, result.at).ok
    /\ result.at > 0

\* ------------------------------------------------------------------------
C22_RefusedAtEntry ==
    \A p \in Procs, ip \in IPs :
        (FailuresInWindow(ip, clock) > MAX_FAILED_ATTEMPTS /\ login_user_start(p, ip)) =>
            /\ result'.op = "login" /\ result'.outcome = "TooManyAttempts"
            /\ result'.stage = "entry" /\ result'.verifies = 0 /\ result'.registered = 0
            /\ UNCHANGED <<users, mfa, sessions, audit, nextToken, pc, loc,
                           failLog, streak, hadSix>>
            /\ InWindow(limiter'[ip], clock) = InWindow(limiter[ip], clock)
            /\ Len(InWindow(limiter'[ip], clock)) > MAX_FAILED_ATTEMPTS
            /\ \A other \in IPs \ {ip} : limiter'[other] = limiter[other]

\* C22: while an address has more than 5 failures in the window, every login
\* from it, whatever its credentials, fails with TooManyAttempts before any read
\* of the storage and changes nothing: no failure is added, the count is not
\* reset, no session row and no audit row is written.
C22_LimitedLoginChangesNothing == [][C22_RefusedAtEntry]_vars
\* A login was refused at the entry, later than the failures that fill the
\* window, while another login of the same address waits to register its own.
C22_Witness ==
    /\ LoginRefused
    /\ FailuresInWindow(result.ip, clock) > MAX_FAILED_ATTEMPTS
    /\ \E p \in Procs : pc[p] = "login_fail" /\ loc[p].ip = result.ip
    /\ sessions = <<>>

\* ------------------------------------------------------------------------
RefreshFailed ==
    /\ result'.op = "refresh" /\ result'.outcome = "InvalidRefreshToken"
    /\ result' # result \/ pc' # pc

\* C23: whenever refresh fails with InvalidRefreshToken and a session row with the
\* digest of the presented token exists, that row is revoked after the call,
\* whatever made the call fail: the session expired or revoked, its owner missing
\* or no longer active.
C23_FailedRefreshRevokes ==
    [][RefreshFailed =>
          \A i \in 1..Len(sessions') :
              sessions'[i].refresh_token_hash = Sha256(result'.token)
                  => sessions'[i].revoked_at # NoTime]_vars

\* ------------------------------------------------------------------------
C24_ExpiredTaken ==
    \A p \in Procs, t \in RefreshTokens :
        refresh_tokens_start(p, t, "ip1") =>
            \A i \in 1..Len(sessions) :
                (/\ sessions[i].refresh_token_hash = Sha256(t)
                 /\ sessions[i].revoked_at = NoTime
                 /\ sessions[i].expires_at <= clock)
                    => /\ pc'[p] = "refresh_expire"
                       /\ loc'[p].current_session = sessions[i]
                       /\ loc'[p].current_time = clock
C24_ExpiredRevoked ==
    \A p \in Procs :
        pc[p] = "refresh_expire" /\ pc'[p] # pc[p] =>
            LET id == loc[p].current_session.id
            IN  /\ result' = [op |-> "refresh", outcome |-> "InvalidRefreshToken",
                              token |-> loc[p].token]
                /\ Len(sessions') = Len(sessions)
                /\ \A i \in 1..Len(sessions) :
                       sessions'[i] = IF sessions[i].id = id
                                      THEN [sessions[i] EXCEPT !.revoked_at = loc[p].current_time]
                                      ELSE sessions[i]
                /\ \E i \in 1..Len(sessions') :
                       sessions'[i].id = id /\ sessions'[i].revoked_at # NoTime
                /\ UNCHANGED <<audit, users, nextToken>>

\* C24: refresh of an unrevoked session whose expires_at is at or before the
\* current time sets the session's revoked_at, commits, fails with
\* InvalidRefreshToken and creates no session, no access token and no audit row.
C24_ExpiredRefreshRevokes == [][C24_ExpiredTaken /\ C24_ExpiredRevoked]_vars
\* A session was presented at the very instant of its expiry and was revoked at
\* that instant; no successor and no audit row beyond the login's came of it.
C24_Witness ==
    /\ result.op = "refresh" /\ result.outcome = "InvalidRefreshToken"
    /\ \E i \in 1..Len(sessions) :
           /\ sessions[i].refresh_token_hash = Sha256(result.token)
           /\ sessions[i].revoked_at = sessions[i].expires_at
    /\ Len(sessions) = 1 /\ Len(audit) = 1

\* ------------------------------------------------------------------------
UnrevokedOf(rows, user_id) ==
    {i \in 1..Len(rows) : rows[i].user_id = user_id /\ rows[i].revoked_at = NoTime}

\* C25: a successful refresh revokes exactly the session row it redeemed and
\* inserts exactly one new unrevoked session of the same user with a fresh token
\* digest; every other session row is left as it was, so the number of unrevoked
\* sessions of the user stays the same.
C25_RotationFrame ==
    [][\A p \in Procs :
          pc[p] = "refresh_commit" /\ pc'[p] # pc[p] =>
              LET id == loc[p].current_session.id
                  owner == loc[p].current_session.user_id
                  n == Len(sessions)
              IN  /\ result'.op = "refresh" /\ result'.outcome = "ok"
                  /\ Len(sessions') = n + 1
                  /\ \A i \in 1..n :
                         IF sessions[i].id = id
                         THEN sessions'[i].revoked_at # NoTime
                         ELSE sessions'[i] = sessions[i]
                  /\ sessions'[n + 1].user_id = owner
                  /\ sessions'[n + 1].revoked_at = NoTime
                  /\ sessions'[n + 1].refresh_token_hash = Sha256(result'.refresh_token)
                  /\ \A i \in 1..n :
                         sessions[i].refresh_token_hash # sessions'[n + 1].refresh_token_hash
                  /\ Cardinality(UnrevokedOf(sessions', owner))
                         = Cardinality(UnrevokedOf(sessions, owner))]_vars

\* The rows present before a step are all still there, each with every field but
\* revoked_at as it was, and with its revoked_at as it was when that was set.
C26_SessionStep ==
    /\ Len(sessions') >= Len(sessions)
    /\ \A i \in 1..Len(sessions) :
           /\ [sessions'[i] EXCEPT !.revoked_at = NoTime]
                  = [sessions[i] EXCEPT !.revoked_at = NoTime]
           /\ sessions[i].revoked_at # NoTime
                  => sessions'[i].revoked_at = sessions[i].revoked_at

\* C26: over login, refresh, logout, revoke by id and offboard, no session row
\* is deleted, no field of a session other than revoked_at changes, and a
\* revoked_at that is set is never cleared or replaced by another time.
C26_SessionsAppendOnly == [][C26_SessionStep]_vars

\* The refresh token numbered n has been rotated by a refresh that returned.
RefreshSucceededOn(n) == redeemed[n] > 0

\* A logout that returned has left its audit row for the session of token n.
LogoutSucceededOn(n) ==
    \E i \in 1..Len(sessions), j \in 1..Len(audit) :
        /\ sessions[i].refresh_token_hash = Sha256(TokenUrlsafe(n))
        /\ audit[j].action = "logout"
        /\ audit[j].target_id = sessions[i].id

\* C27: a logout and a refresh of the same refresh token never both succeed,
\* whichever way their steps interleave.
C27_LogoutOrRefresh ==
    \A n \in 1..MaxRevokeSessions : ~(RefreshSucceededOn(n) /\ LogoutSucceededOn(n))

\* A call of refresh_tokens that has read its session comes to its end in this step.
RefreshEnds(p) == pc[p] \in {"refresh_user", "refresh_commit"} /\ pc'[p] = "idle"

\* What the step of an ending refresh has committed: a successor row, the
\* refresh_token audit row, the revocation of the session it redeemed.
SuccessorCommitted == Len(sessions') = Len(sessions) + 1
RotationAudited ==
    /\ Len(audit') = Len(audit) + 1
    /\ audit'[Len(audit')].action = "refresh_token"
RedeemedRevoked(p) == sessions'[loc[p].current_session.id].revoked_at # NoTime

C28_RotationStep ==
    \A p \in Procs :
        RefreshEnds(p) =>
            \/ /\ SuccessorCommitted /\ RotationAudited /\ RedeemedRevoked(p)
               /\ sessions'[Len(sessions')].revoked_at = NoTime
               /\ result'.op = "refresh" /\ result'.outcome = "ok"
            \/ /\ sessions' = sessions /\ audit' = audit
               /\ result'.op = "refresh" /\ result'.outcome # "ok"

\* C28: a refresh commits the revocation of the session it redeemed, the
\* successor session and the refresh_token audit row together or not at all: a
\* call that fails or is cancelled after reading the session leaves the rows as
\* they were, and no committed state has the successor beside an unrevoked
\* redeemed session, or a rotation's revocation without its successor.
C28_RotationWhole == [][C28_RotationStep]_vars

\* A rotation has committed and another refresh was cancelled, in either order.
C28_Witness ==
    /\ \E n \in 1..MaxRevokeSessions : redeemed[n] > 0
    /\ result.op = "refresh" /\ result.outcome = "CancelledError"
    /\ \E j \in 1..Len(audit) : audit[j].action = "refresh_token"

\* A login that failed its verification registers its failure in this step.
RegistersFailure(p) == pc[p] = "login_fail" /\ pc'[p] = "idle"

C29_RegisterStep ==
    \A p \in Procs :
        RegistersFailure(p) =>
            LET ip == loc[p].ip
                before == Len(InWindow(limiter[ip], clock))
                after == Len(limiter'[ip])
            IN  /\ after = before + 1
                /\ result'.outcome = "TooManyAttempts" <=> after > MAX_FAILED_ATTEMPTS
                /\ result'.outcome = "InvalidCredentials" <=> after <= MAX_FAILED_ATTEMPTS
                /\ \A other \in IPs \ {ip} : limiter'[other] = limiter[other]

\* C29: of the register_failure calls that run concurrently for one address,
\* each adds one to the failures stored for it in the window, so that N calls
\* leave the previous count plus N, and a call answers true exactly when the
\* count after its own append is above 5.
C29_NoFailureLost == [][C29_RegisterStep]_vars

\* Two failed logins of one address were waiting to register; one has, as the
\* sixth failure, and the other is still to come.
C29_Witness ==
    /\ result.op = "login" /\ result.outcome = "TooManyAttempts" /\ result.stage = "verify"
    /\ Len(limiter[result.ip]) = MAX_FAILED_ATTEMPTS + 1
    /\ \E q \in Procs : pc[q] = "login_fail" /\ loc[q].ip = result.ip

\* C30: at every time t, is_rate_limited(ip) is true exactly when more than 5 of
\* the failures registered for ip since its last reset carry a time at or after
\* t minus 15 minutes, and the deque it leaves holds just those failures: older
\* ones are dropped on access and not counted, one exactly 15 minutes old is
\* counted, and the failures of the other addresses are not.
C30_LimitedIffWindowCount ==
    \A ip \in IPs :
        LET entry == is_rate_limited(limiter, ip, clock) IN
        /\ entry.limited <=> FailuresInWindow(ip, clock) > MAX_FAILED_ATTEMPTS
        /\ entry.attempts[ip] = InWindow(failLog[ip], clock)
        /\ \A other \in IPs \ {ip} : entry.attempts[other] = limiter[other]

\* An address is refused at entry on six failures of which the oldest is exactly
\* as old as the window, while the other address has a failure of its own.
C30_Witness ==
    /\ LoginRefused
    /\ FailuresInWindow(result.ip, clock) = MAX_FAILED_ATTEMPTS + 1
    /\ failLog[result.ip][1] = clock - Seconds(FAILED_ATTEMPTS_WINDOW_SECONDS)
    /\ is_rate_limited(limiter, result.ip, clock).limited
    /\ \E other \in IPs \ {result.ip} : failLog[other] # <<>>

\* C31: every login that fails has slept max(0, floor - elapsed) before it
\* returns, elapsed being the time since the login started and the floor 200 ms:
\* no failure comes back before the floor, none sleeps when the floor has
\* passed, and none sleeps beyond the time that remained.
C31_PaddedToFloor ==
    LoginRaised =>
        /\ result.slept = IF result.elapsed < MIN_FAILED_LOGIN_RESPONSE_MILLIS
                          THEN MIN_FAILED_LOGIN_RESPONSE_MILLIS - result.elapsed
                          ELSE 0
        /\ result.elapsed + result.slept >= MIN_FAILED_LOGIN_RESPONSE_MILLIS

\* The challenge token presented is no good at this moment: not a challenge
\* token as issued, or expired.
BadChallenge(kind, issued_at, tamper) ==
    \/ kind # "mfa"
    \/ tamper # "none"
    \/ IntTimestamp(issued_at + Minutes(mfa_challenge_ttl_minutes)) * TicksPerSecond <= clock

\* The subject has no MFA credential, or one that was never confirmed.
NotEnrolled(u) == u \notin DOMAIN mfa \/ mfa[u].confirmed_at = NoTime

\* The code is a TOTP code of the moment or a backup code still stored for the user.
GoodCode(user_id, code) ==
    \/ totp_code_valid(code, clock)
    \/ code.kind = "backup" /\ BackupCodeHash(code) \in mfa[user_id].backup_code_hashes

NothingIssued == UNCHANGED <<sessions, audit, mfa, nextToken, spent, users>>

\* The step is the start of a verify by p with this code, as far as pc, loc and
\* result show.
StartsVerify(p, code) ==
    /\ pc[p] = "idle"
    /\ \/ pc'[p] = "mfa_verify" /\ loc'[p].code = code
       \/ pc' = pc /\ result' # result /\ result'.op = "mfa_verify" /\ result'.code = code

C32_TokenAndEnrolment ==
    \A p \in Procs, code \in MfaFailureCodes(clock) :
      StartsVerify(p, code) =>
      \A kind \in TokenKinds, u \in MfaFailureUsers, issued_at \in {0, clock},
         tamper \in MfaFailureTampers :
        verify_mfa_and_issue_tokens_start(p, Tampered(Minted(kind, u, issued_at), tamper),
                                          code, "ip1") =>
            /\ NothingIssued
            /\ BadChallenge(kind, issued_at, tamper) =>
                    result' = MfaRaised("InvalidMfaToken", code, FALSE) /\ pc' = pc
            /\ (~BadChallenge(kind, issued_at, tamper) /\ NotEnrolled(u)) =>
                    result' = MfaRaised("MfaNotEnrolled", code, FALSE) /\ pc' = pc
            /\ (~BadChallenge(kind, issued_at, tamper) /\ ~NotEnrolled(u)) =>
                    pc'[p] = "mfa_verify" /\ result' = result

C32_Code ==
    \A p \in Procs :
        (pc[p] = "mfa_verify" /\ pc'[p] = "idle") =>
            IF GoodCode(loc[p].user.id, loc[p].code)
            THEN result'.op = "mfa_verify" /\ result'.outcome = "ok"
            ELSE /\ result'.op = "mfa_verify" /\ result'.outcome = "InvalidMfaCode"
                 /\ NothingIssued

\* C32: MFA verify fails with InvalidMfaToken on a challenge token that is
\* expired, badly signed or not of purpose "mfa", with MfaNotEnrolled when the
\* subject has no credential or an unconfirmed one, and with InvalidMfaCode when
\* the code is neither a TOTP code of the moment nor a stored backup code; a
\* call that fails adds no session, token or audit row and uses up no backup code.
C32_MfaFailures == [][C32_TokenAndEnrolment /\ C32_Code]_vars

\* A verify was refused for an unconfirmed credential, rows and codes as before.
C32_Witness ==
    /\ result.op = "mfa_verify" /\ result.outcome = "MfaNotEnrolled"
    /\ "u1" \in DOMAIN mfa /\ mfa["u1"].confirmed_at = NoTime
    /\ sessions = <<>> /\ audit = <<>>

\* The rows of the audit log are those of before, followed by n new ones.
AuditGrewBy(n) ==
    /\ Len(audit') = Len(audit) + n
    /\ SubSeq(audit', 1, Len(audit)) = audit

\* The one row the step has appended carries this action and this actor.
AuditAppended(action, actor_id) ==
    /\ AuditGrewBy(1)
    /\ audit'[Len(audit')].action = action
    /\ audit'[Len(audit')].actor_id = actor_id

\* The call of p, which stood at this step of its function, ends in this step.
Ends(p, at) == pc[p] = at /\ pc'[p] = "idle"

C33_AuditStep ==
    /\ AuditGrewBy(0) \/ AuditGrewBy(1)
    /\ \A p \in Procs :
        /\ Ends(p, "login_commit") =>
               result'.outcome = "ok" /\ AuditAppended("login", loc[p].user.id)
        /\ Ends(p, "refresh_commit") =>
               IF result'.outcome = "ok"
               THEN AuditAppended("refresh_token", loc[p].user.id)
               ELSE AuditGrewBy(0)
        /\ Ends(p, "logout_commit") =>
               result'.outcome = "ok" /\ AuditAppended("logout", loc[p].current_user.id)
        /\ Ends(p, "revoke_commit") =>
               result'.outcome = "ok" /\ AuditAppended("session_revoke", loc[p].current_user.id)
    /\ (result' # result /\ result'.op \in {"login", "refresh", "logout", "session_revoke"}
           /\ result'.outcome # "ok") => AuditGrewBy(0)
    /\ (sessions' # sessions /\ \E p \in Procs :
            pc[p] \in {"login_commit", "refresh_commit", "logout_commit", "revoke_commit"}
                /\ pc'[p] = "idle") => AuditGrewBy(1)

\* C33: a login, refresh, logout or revoke by id that succeeds appends one audit
\* row, of action login, refresh_token, logout or session_revoke, with the
\* caller as actor, in the commit that writes the session; a call that fails
\* appends none, and no step changes or removes a row already in the log.
C33_OneEventPerSuccess == [][C33_AuditStep]_vars

\* A login, a refresh and a logout have each left their row.
C33_Witness ==
    {audit[j].action : j \in 1..Len(audit)} = {"login", "refresh_token", "logout"}

\* A login comes back in this step with InvalidCredentials or TooManyAttempts.
LoginFailsNow ==
    /\ result' # result
    /\ result'.op = "login"
    /\ result'.outcome \in {"InvalidCredentials", "TooManyAttempts"}

\* C34: a login that fails with InvalidCredentials or TooManyAttempts leaves an
\* audit row of action failed_login, as a login that succeeds leaves one of
\* action login.
C34_FailedLoginAudited ==
    [][LoginFailsNow =>
          /\ Len(audit') = Len(audit) + 1
          /\ audit'[Len(audit')].action = "failed_login"]_vars

\* The invitation whose link is being mailed is in the tables as committed: an
\* invited user with the recipient's address, the digest of the token in the
\* link and an expiry, and the invite_user audit row that names that user.
InvitationCommitted(mail) ==
    \E u \in DOMAIN users :
        /\ users[u].email = mail.recipient_email
        /\ users[u].status = "invited"
        /\ users[u].invitation_token_hash = Sha256(mail.invitation_link)
        /\ users[u].invitation_expires_at # NoTime
        /\ \E j \in 1..Len(audit) :
               audit[j].action = "invite_user" /\ audit[j].target_id = u

C35_SendStep ==
    /\ \A p \in Procs :
           (pc[p] = "invite_send" /\ pc'[p] = "idle") =>
               /\ result'.op = "invite" /\ result'.outcome = "ok"
               /\ InvitationCommitted(result'.sent)
               /\ UNCHANGED <<users, audit>>
    /\ (result' # result /\ result'.op = "invite") =>
           \/ \E p \in Procs : pc[p] = "invite_send" /\ pc'[p] = "idle"
           \/ /\ result'.outcome = "InviteUserConflict"
              /\ UNCHANGED <<users, audit>>
              /\ \A p \in Procs : pc'[p] # "invite_send"

\* C35: invite_user calls the email sender only once the invited user, with
\* status invited, the SHA-256 digest of the token in the link and an expiry,
\* and the invite_user audit row are committed; an invitation that fails on a
\* taken e-mail commits nothing and never calls the sender.
C35_MailAfterCommit == [][C35_SendStep]_vars

\* The invitation of frank is committed and its link has been mailed.
C35_Witness ==
    /\ result.op = "invite" /\ result.outcome = "ok"
    /\ result.sent.recipient_email.name = "frank"
    /\ InvitationCommitted(result.sent)
    /\ \A p \in Procs : pc[p] = "idle"

\* The access token handed out lives 15 minutes, and the session row just
\* inserted expires 7 days after the time the call took as now.
IssuedFor(now) ==
    /\ result'.outcome = "ok"
    /\ result'.access_token.claims.exp - result'.access_token.claims.iat
           = 60 * jwt_access_ttl_minutes
    /\ result'.access_token.claims.iat = IntTimestamp(now)
    /\ Len(sessions') = Len(sessions) + 1
    /\ sessions'[Len(sessions')].expires_at = now + Days(jwt_refresh_ttl_days)

C36_IssueStep ==
    \A p \in Procs :
        /\ Ends(p, "login_commit") => IssuedFor(loc[p].current_time)
        /\ Ends(p, "refresh_commit") =>
               (result'.outcome = "ok" => IssuedFor(loc[p].current_time))

\* C36: an access token issued by login or refresh has exp - iat = 15 minutes;
\* a session created by login expires 7 days after the login's time and one
\* created by refresh 7 days after the refresh's time, whatever the expiry of
\* the session redeemed.
C36_Lifetimes == [][C36_IssueStep]_vars

\* A refresh later than the login has left a successor that expires later than
\* the session it redeemed.
C36_Witness ==
    /\ result.op = "refresh" /\ result.outcome = "ok"
    /\ Len(sessions) = 2
    /\ sessions[2].expires_at > sessions[1].expires_at
    /\ sessions[1].revoked_at # NoTime

\* The token's subject is, at this moment, a user in active status with the
\* e-mail and the organisation the token claims.
SubjectStands(access_token) ==
    \E u \in DOMAIN users :
        /\ UuidToStr(users[u].id) = access_token.claims.sub
        /\ users[u].status = "active"
        /\ users[u].email = access_token.claims.email
        /\ UuidToStr(users[u].org_id) = access_token.claims.org_id

C37_ResolveStep ==
    \A access_token \in LifecycleAccessTokens :
        /\ get_user_from_access_token(access_token, LifecycleMinted) =>
               (result'.outcome = "ok" <=> SubjectStands(access_token))
        /\ \A p \in Procs, t \in LifecycleTokens :
               revoke_session_by_refresh_token_start(p, access_token, t, "ip1") =>
                   IF SubjectStands(access_token)
                   THEN pc'[p] = "logout_read"
                   ELSE /\ result' = RevokeRaised("logout", "InvalidAccessToken", None, t)
                        /\ pc' = pc
        /\ \A p \in Procs, id \in 1..MaxRevokeSessions :
               revoke_session_by_id_start(p, access_token, id, "ip1") =>
                   IF SubjectStands(access_token)
                   THEN pc'[p] = "revoke_read"
                   ELSE /\ result' = RevokeRaised("session_revoke", "InvalidAccessToken", None, id)
                        /\ pc' = pc

\* C37: an unexpired access token is accepted only while its subject is a user
\* in active status whose stored e-mail and organisation are those of the
\* claims: once the user is offboarded, get_user_from_access_token, logout and
\* revoke by id answer every token issued to the user before with
\* InvalidAccessToken.
C37_TokenOfActiveSubject == [][C37_ResolveStep]_vars

\* The member was offboarded, and a logout with the token issued before, still
\* short of its expiry, was refused.
C37_Witness ==
    /\ users["u1"].status = "suspended"
    /\ result.op = "logout" /\ result.outcome = "InvalidAccessToken"
    /\ \E j \in 1..Len(audit) : audit[j].action = "login"
    /\ IntTimestamp(clock) < 60 * jwt_access_ttl_minutes

\* C38: once the offboarding of a user has committed, the suspended user owns no
\* unrevoked session, however a login or a refresh of that user that had read
\* the user as active interleaves with it.
C38_SuspendedOwnsNoSession ==
    \A i \in 1..Len(sessions) :
        users[sessions[i].user_id].status = "suspended" => sessions[i].revoked_at # NoTime

\* C39: however concurrent logins from one address interleave, at most 6 logins
\* of that address have their verifier checked and rejected inside one
\* 15-minute window without a successful login in between: no more than the
\* threshold plus one guess is evaluated.
C39_AtMostSixGuesses ==
    \A ip \in IPs : FailuresInWindow(ip, clock) <= MAX_FAILED_ATTEMPTS + 1


\* The audit row the step has appended names, as its target, the session row
\* the same step has stored.
AuditTargetsStoredSession ==
    /\ Len(sessions') = Len(sessions) + 1
    /\ AuditGrewBy(1)
    /\ audit'[Len(audit')].target_id # NoId
    /\ audit'[Len(audit')].target_id = sessions'[Len(sessions')].id

C40_TargetStep ==
    \A p \in Procs :
        /\ Ends(p, "login_commit") => AuditTargetsStoredSession
        /\ (Ends(p, "refresh_commit") /\ result'.outcome = "ok") =>
               AuditTargetsStoredSession

\* C40: the login audit event of a successful login and the refresh_token audit
\* event of a successful refresh carry as target id the id of the session row
\* created by that same operation: a non-null id equal to the stored row's id.
C40_AuditTargetsSession == [][C40_TargetStep]_vars

============================================================================
